---- MODULE Spec2Model ----
(***************************************************************************)
(* Hacrandevu backend: the identity-scoped session pool, the per-identity  *)
(* single-worker executors, the run coordinator (run_bot_with_session),    *)
(* the monitor scheduler and the booking flow.                             *)
(*                                                                         *)
(* The automation engine (HacettepeBot.run_with_page, BotCancelled) is an  *)
(* external collaborator: a call into it is a step whose outcome is chosen *)
(* nondeterministically (a result with a status, a cancellation, or any    *)
(* other exception).  The keyword arguments probe_subtimes / book_target   *)
(* that the callers pass are forwarded to the engine and do not change the *)
(* control flow of the coordinator.                                        *)
(*                                                                         *)
(* Time is counted in seconds; the scheduler wakes every sixty seconds.  A *)
(* timestamp taken between two wake-ups is stamped with the time of the    *)
(* next wake-up.  The scheduler reads datetime.now() (now) and the session *)
(* manager reads time.time() (clock); a specification advances the one its *)
(* actions read: now with the scheduler's iterations, clock with the       *)
(* sweeps of the idle eviction.                                            *)
(***************************************************************************)
EXTENDS Integers, Sequences, FiniteSets, TLC

\* ---------------------------------------------------------------- bounds
MaxTime == 3
MaxRuns == 4
MaxSessions == 3
MaxLeaks == 1
MaxSearches == 2
MaxOpsRuns == 2
MaxOpsTime == 1
MaxBookTime == 1
MaxLoops == 3
MaxLoopTime == 1
MaxSweeps == 3
MaxCallers == 2

\* ------------------------------------------------------------- constants
\* ThreadPoolExecutor(max_workers=1)
TwoWorkers == 1 + 1
max_workers == 1

PatientIds == {1, 2}
MonitorIds == {1, 2}
RunIds == 1..MaxRuns
Sids == 1..MaxSessions
Null == -1

ActionTypes == {"notify", "ask_telegram", "auto_book"}
ResultStatuses == {"AVAILABLE", "NOT_AVAILABLE", "UNKNOWN"}
EnvelopeStatuses == ResultStatuses \cup {"CANCELLED", "ERROR"}

VARIABLES
    now,        \* seconds since start (datetime.now())
    patients,   \* ids of the rows of table patients
    monitors,   \* table monitors: id -> row
    runs,       \* run id -> the run's frame (task state, locals, envelope)
    queue,      \* identity -> work queue of that identity's executor
    executors,  \* SessionManager._executors: identities that have an executor
    botLock,    \* check_randevu._bot_lock: holder run id, 0 when free
    sessions,   \* SessionManager._sessions: identity -> session id, 0 when absent
    objs,       \* session id -> BrowserSession object
    buttons,    \* patients for whom a message with book| buttons was sent
    stop_event, \* scheduler._stop_event is set
    loops,      \* the monitor_loop tasks that have not ended
    foreign_calls, \* history: page and session calls made off the identity's executor
    input,      \* the arguments of a call of one of the filter functions
    output,     \* the value the call returned, in a one-element tuple
    clock,      \* seconds since start (time.time())
    idle_reads, \* history: identities whose idle time the eviction thread has read
    active_runs, \* scheduler._active_runs: monitor id -> the run whose event is registered, 0 when absent
    manager,    \* the SessionManager class and its one instance, with the position of each thread that calls SessionManager()
    shutdown,   \* the shutdown hook's close_all call: its position and the identities of its snapshot still to close
    finished    \* history: the last ended booking flow that had deactivated a monitor

vars == <<now, patients, monitors, runs, queue, executors, botLock, sessions,
          objs, buttons, stop_event, loops, foreign_calls, input, output,
          clock, idle_reads, active_runs, manager, shutdown, finished>>

\* The identity (tc_kimlik) of a patient row; one row per identity.
Tc(p) == p
Tcs == {Tc(p) : p \in PatientIds}

\* ------------------------------------------------------ records
\* The frame of an unused run id.
NoRun ==
    [kind |-> "none", pat |-> 0, mon |-> 0, pc |-> "none", bs |-> 0,
     reused |-> FALSE, retried |-> FALSE, calls |-> 0,
     skip |-> FALSE, status |-> "none", exit_code |-> Null,
     booked |-> FALSE, deact |-> {}, origin |-> "none", cb_raises |-> FALSE]

\* A BrowserSession that does not exist: not yet constructed, or closed by
\* close_session.
NoSession ==
    [st |-> "closed", tc |-> 0, logged_in |-> FALSE, search_url |-> "", last_used |-> 0]

\* The session manager's state as one value, for the operators below; clock
\* is what time.time() returns during the call.
SM == [sessions |-> sessions, objs |-> objs, clock |-> clock]

\* ------------------------------------------------- SessionManager
\* close_session: pop the entry under the lock, then close page and session
\* (both close calls swallow their exceptions).
close_session_keep_entry(S, tc) ==
    LET bs == S.sessions[tc] IN
    IF bs = 0 THEN S
    ELSE [S EXCEPT !.objs[bs] = NoSession]

close_session(S, tc) ==
    LET bs == S.sessions[tc] IN
    IF bs = 0 THEN S
    ELSE [S EXCEPT !.sessions[tc] = 0, !.objs[bs] = NoSession]

\* What the page and the session of a pooled entry can do when they are
\* closed: the page may be closed already, and each close call may raise.
CloseOutcomes == [page_closed : BOOLEAN, page_raises : BOOLEAN, session_raises : BOOLEAN]

\* A statement in `try: ... except Exception: pass` that raises or not: the
\* exception does not leave the block.
try_except_pass(raises) == raises /\ FALSE

\* The close calls a close_session call makes, in order.  is_closed() is
\* asked first; a page.close() that raises does not stop session.close().
close_calls(S, tc, x) ==
    IF S.sessions[tc] = 0 THEN <<>>
    ELSE (IF x.page_closed THEN <<>> ELSE <<"page.close">>) \o <<"session.close">>

\* close_session raises to its caller.
close_raises(S, tc, x) ==
    /\ S.sessions[tc] # 0
    /\ \/ try_except_pass(~x.page_closed /\ x.page_raises)
       \/ try_except_pass(x.session_raises)

\* _cleanup_interval, in seconds.
cleanup_interval == 30

\* The idle timeout in minutes, from the environment (ten if it is not set):
\* one minute in this model.
SESSION_IDLE_TIMEOUT_MINUTES == 1

\* _idle_timeout, in seconds.
idle_timeout == SESSION_IDLE_TIMEOUT_MINUTES * 60

\* BrowserSession.idle_seconds.
idle_seconds(S, bs) == S.clock - S.objs[bs].last_used

\* BrowserSession.touch().
touch(S, bs) == [S EXCEPT !.objs[bs].last_used = S.clock]

\* The statements after a login that succeeded: logged_in, search_url, touch().
mark_logged_in(S, bs) ==
    touch([S EXCEPT !.objs[bs].logged_in = TRUE, !.objs[bs].search_url = "post_login"], bs)

get_session_no_touch(S, tc, alive) ==
    LET bs == S.sessions[tc] IN
    IF bs = 0 THEN [S |-> S, bs |-> 0]
    ELSE IF ~alive THEN [S |-> close_session(S, tc), bs |-> 0]
    ELSE [S |-> S, bs |-> bs]

\* get_session: the pooled session if its page is alive, else None (0); a
\* dead one is closed and removed.  alive is is_page_alive()'s answer.
get_session(S, tc, alive) ==
    LET bs == S.sessions[tc] IN
    IF bs = 0 THEN [S |-> S, bs |-> 0]
    ELSE IF ~alive THEN [S |-> close_session(S, tc), bs |-> 0]
    ELSE [S |-> touch(S, bs), bs |-> bs]

\* A mutant of get_status: the entry is looked up with get_session.
get_status_by_get_session(S, tc, alive) ==
    LET g == get_session(S, tc, alive) IN
    IF g.bs = 0
    THEN [S |-> g.S,
          status |-> [active |-> FALSE, logged_in |-> FALSE, idle_seconds |-> 0]]
    ELSE [S |-> g.S,
          status |-> [active |-> alive, logged_in |-> g.S.objs[g.bs].logged_in /\ alive,
                      idle_seconds |-> idle_seconds(g.S, g.bs)]]

\* get_status: the dict it returns, and the pool after the call.  alive is
\* is_page_alive()'s answer.
get_status(S, tc, alive) ==
    LET bs == S.sessions[tc] IN
    IF bs = 0
    THEN [S |-> S,
          status |-> [active |-> FALSE, logged_in |-> FALSE, idle_seconds |-> 0]]
    ELSE [S |-> S,
          status |-> [active |-> alive, logged_in |-> S.objs[bs].logged_in /\ alive,
                      idle_seconds |-> idle_seconds(S, bs)]]

\* What a create_session call can do: "ok", or raise before the browser is
\* started ("start_raises": mkdir, StealthySession(), start()), or raise
\* after it ("page_raises": new_page(), set_default_timeout()).
FreeSids(S) == {s \in Sids : S.objs[s].st # "open"}

\* The started sessions that no pool entry refers to.
Orphans(S) == {s \in Sids : S.objs[s].st = "open" /\ S.sessions[S.objs[s].tc] # s}

CreateOutcomes(S) ==
    IF FreeSids(S) = {} THEN {"start_raises"}
    ELSE IF Cardinality(Orphans(S)) < MaxLeaks THEN {"ok", "start_raises", "page_raises"}
    ELSE {"ok", "start_raises"}

\* create_session: close the old entry, start a browser session, open a
\* page, register the new entry.
create_session(S, tc, c) ==
    LET S1 == close_session(S, tc)
        sid == CHOOSE s \in FreeSids(S1) : \A x \in FreeSids(S1) : s <= x
        started == [S1 EXCEPT !.objs[sid] =
                       [st |-> "open", tc |-> tc, logged_in |-> FALSE, search_url |-> "",
                        last_used |-> S.clock]]
    IN  CASE c = "start_raises" -> [S |-> S1, bs |-> 0, raised |-> TRUE]
          [] c = "page_raises" -> [S |-> started, bs |-> 0, raised |-> TRUE]
          [] OTHER -> [S |-> [started EXCEPT !.sessions[tc] = sid], bs |-> sid, raised |-> FALSE]

\* ------------------------------------------------ run_bot_with_session
\* The exit code the engine returns with each result status.
ExitCode(status) ==
    CASE status = "AVAILABLE" -> 0
      [] status = "NOT_AVAILABLE" -> 2
      [] OTHER -> 3

\* What an engine call can do: return a result, observe the cancel event
\* (only a run that was given one), or raise anything else.
EngineOutcomes(f) ==
    ResultStatuses \cup {"fail"} \cup (IF f.kind = "book" THEN {} ELSE {"cancel"})

\* The booking outcomes an engine result can carry (res["booking"]["success"]).
BookedOutcomes(f, o) ==
    IF f.kind = "book" /\ o \in ResultStatuses THEN BOOLEAN ELSE {FALSE}

\* A frame after run_bot_with_session has returned: the locals are gone,
\* the envelope (status, exit_code, session_reused, booking) remains.
Returned(f) ==
    [f EXCEPT !.pc = "returned", !.bs = 0, !.calls = 0, !.retried = FALSE,
              !.skip = FALSE, !.cb_raises = FALSE]

\* The normal return: result = bot.result, plus exit_code and session_reused.
NormalReturn(S, f, status, booked) ==
    [S |-> S,
     f |-> Returned([f EXCEPT !.status = status, !.exit_code = ExitCode(status),
                              !.booked = booked])]

\* A mutant of OuterExcept: the catch-all handler is missing.
OuterExceptNoCatchAll(S, f, exc) ==
    IF exc = "BotCancelled"
    THEN [S |-> S,
          f |-> Returned([f EXCEPT !.status = "CANCELLED", !.exit_code = 1,
                                  !.reused = FALSE])]
    ELSE [S |-> S, f |-> [Returned(f) EXCEPT !.pc = "raised"]]

\* A mutant of OuterExcept: the catch-all handler leaves the session pooled.
OuterExceptKeepsSession(S, f, exc) ==
    IF exc = "BotCancelled"
    THEN [S |-> S,
          f |-> Returned([f EXCEPT !.status = "CANCELLED", !.exit_code = 1,
                                  !.reused = FALSE])]
    ELSE [S |-> S,
          f |-> Returned([f EXCEPT !.status = "ERROR", !.exit_code = 1,
                                  !.reused = FALSE])]

\* The handlers of the outer try: BotCancelled gives the CANCELLED envelope,
\* any other exception closes the identity's session and gives ERROR.
OuterExcept(S, f, exc) ==
    IF exc = "BotCancelled"
    THEN [S |-> S,
          f |-> Returned([f EXCEPT !.status = "CANCELLED", !.exit_code = 1,
                                  !.reused = FALSE])]
    ELSE [S |-> close_session(S, Tc(f.pat)),
          f |-> Returned([f EXCEPT !.status = "ERROR", !.exit_code = 1,
                                  !.reused = FALSE])]

\* From the bot's construction to the first engine call: look the session
\* up, reuse a logged-in one, else drop a half-logged-in one and create.
RunStart(S, f, ctor_ok, alive, c) ==
    IF ~ctor_ok THEN OuterExcept(S, f, "Exception")
    ELSE
      LET g == get_session(S, Tc(f.pat), alive)
          session_reused == g.bs # 0 /\ g.S.objs[g.bs].logged_in
      IN  IF session_reused
          THEN [S |-> touch(g.S, g.bs),
                f |-> [f EXCEPT !.pc = "reuse", !.bs = g.bs,
                                !.reused = TRUE, !.calls = 1, !.skip = TRUE]]
          ELSE
            LET S1 == IF g.bs # 0 THEN close_session(g.S, Tc(f.pat)) ELSE g.S
                cr == create_session(S1, Tc(f.pat), c)
            IN  IF cr.raised THEN OuterExcept(cr.S, f, "Exception")
                ELSE [S |-> cr.S,
                      f |-> [f EXCEPT !.pc = "login", !.bs = cr.bs, !.calls = 1,
                                      !.skip = FALSE]]

\* A mutant of ReuseReturn: the handler `except BotCancelled: raise` is
\* missing, a cancellation is handled like any other exception.
ReuseReturnCatchesCancel(S, f, o, booked, c) ==
    CASE o \in ResultStatuses -> NormalReturn(touch(S, f.bs), f, o, booked)
      [] f.cb_raises -> OuterExcept(S, f, "Exception")
      [] OTHER ->
        LET cr == create_session(close_session(S, Tc(f.pat)), Tc(f.pat), c) IN
        IF cr.raised THEN OuterExcept(cr.S, f, "Exception")
        ELSE [S |-> cr.S,
              f |-> [f EXCEPT !.pc = "retry", !.bs = cr.bs, !.reused = FALSE,
                              !.retried = TRUE, !.calls = @ + 1, !.skip = FALSE]]

\* The reuse attempt ends: a result returns; a cancellation propagates; any
\* other exception is announced through the status callback, and then the
\* stale session is closed, a new one created and the engine started again
\* with skip_login=False.  The announcement is a plain call in the handler:
\* what the callback raises goes to the outer handlers.
ReuseReturn(S, f, o, booked, c) ==
    CASE o \in ResultStatuses -> NormalReturn(touch(S, f.bs), f, o, booked)
      [] o = "cancel" -> OuterExcept(S, f, "BotCancelled")
      [] f.cb_raises -> OuterExcept(S, f, "Exception")
      [] OTHER ->
        LET cr == create_session(close_session(S, Tc(f.pat)), Tc(f.pat), c) IN
        IF cr.raised THEN OuterExcept(cr.S, f, "Exception")
        ELSE [S |-> cr.S,
              f |-> [f EXCEPT !.pc = "retry", !.bs = cr.bs, !.reused = FALSE,
                              !.retried = TRUE, !.calls = @ + 1, !.skip = FALSE]]

\* A mutant of RetryReturn: a failed retry is retried again.
RetryReturnAgain(S, f, o, booked, c) ==
    CASE o \in ResultStatuses ->
           NormalReturn(mark_logged_in(S, f.bs), f, o, booked)
      [] o = "cancel" -> OuterExcept(S, f, "BotCancelled")
      [] OTHER ->
        LET cr == create_session(close_session(S, Tc(f.pat)), Tc(f.pat), c) IN
        IF cr.raised THEN OuterExcept(cr.S, f, "Exception")
        ELSE [S |-> cr.S,
              f |-> [f EXCEPT !.pc = "retry", !.bs = cr.bs, !.calls = @ + 1]]

\* The retry ends: a result marks the session logged in; every exception
\* goes to the outer handlers.
RetryReturn(S, f, o, booked, c) ==
    CASE o \in ResultStatuses ->
           NormalReturn(mark_logged_in(S, f.bs), f, o, booked)
      [] o = "cancel" -> OuterExcept(S, f, "BotCancelled")
      [] OTHER -> OuterExcept(S, f, "Exception")

\* The first login ends: a result marks the session logged in; every
\* exception closes the session and is raised again to the outer handlers.
LoginReturn(S, f, o, booked) ==
    CASE o \in ResultStatuses ->
           NormalReturn(mark_logged_in(S, f.bs), f, o, booked)
      [] o = "cancel" -> OuterExcept(close_session(S, Tc(f.pat)), f, "BotCancelled")
      [] OTHER -> OuterExcept(close_session(S, Tc(f.pat)), f, "Exception")


\* ------------------------------------------------------------ database
\* A row of table monitors as create_monitor stores it.
MonitorRow(p, a, i) ==
    [patient_id |-> p, action_type |-> a, interval_minutes |-> i,
     is_active |-> TRUE, last_checked |-> Null]

\* A row that is not in the table.
NoMonitor ==
    [patient_id |-> 0, action_type |-> "notify", interval_minutes |-> 1,
     is_active |-> FALSE, last_checked |-> Null]

\* get_active_monitors() restricted to one patient.
ActiveMonitorsOf(M, p) == {m \in MonitorIds : M[m].is_active /\ M[m].patient_id = p}

\* update_monitor(id, is_active=False) for every monitor of D.
Deactivate(M, D) ==
    [m \in MonitorIds |-> IF m \in D THEN [M[m] EXCEPT !.is_active = FALSE] ELSE M[m]]

\* A mutant of Reactivate: the loop runs over get_active_monitors().
ReactivateActiveOnly(M, p) ==
    [m \in MonitorIds |->
        IF M[m].patient_id = p /\ M[m].is_active /\ ~M[m].is_active
        THEN [M[m] EXCEPT !.is_active = TRUE] ELSE M[m]]

\* The failure branch of a booking: every monitor of the patient that is
\* not active is set active.
Reactivate(M, p) ==
    [m \in MonitorIds |->
        IF M[m].patient_id = p /\ ~M[m].is_active
        THEN [M[m] EXCEPT !.is_active = TRUE] ELSE M[m]]

\* ------------------------------------------------------------ executors
\* The frames a thread of identity t's executor is working on: the lambda
\* around run_bot_with_session, or a booking's _run up to its end.
OnExecutor(R, t) ==
    {r \in RunIds :
        /\ R[r].kind # "none" /\ Tc(R[r].pat) = t
        /\ \/ R[r].pc \in {"waitlock", "reuse", "retry", "login"}
           \/ R[r].kind = "book" /\ R[r].pc \in {"returned", "raised"}}

\* The runs that are inside an engine call.
InEngine(R) == {r \in RunIds : R[r].pc \in {"reuse", "retry", "login"}}

\* executor.submit / loop.run_in_executor on get_executor(t).
Submit(Q, t, r) == [Q EXCEPT ![t] = Append(@, r)]

\* ------------------------------------------------------------- booking
\* The run ids no task uses, and the smallest of them.
FreeRuns(R) == {r \in RunIds : R[r].kind = "none"}
LiveRuns(R) == RunIds \ FreeRuns(R)
NewRun(R) == CHOOSE r \in FreeRuns(R) : \A x \in FreeRuns(R) : r <= x

\* _trigger_booking up to executor.submit(_run): nothing without the
\* patient row; else every active monitor of the patient is deactivated and
\* the booking is queued on the identity's executor.
trigger_booking(M, R, Q, EX, p, origin) ==
    IF p \notin patients
    THEN [monitors |-> M, runs |-> R, queue |-> Q, executors |-> EX]
    ELSE
      LET D == ActiveMonitorsOf(M, p)
          id == NewRun(R)
      IN
      [monitors |-> Deactivate(M, D),
       runs |-> [R EXCEPT ![id] = [NoRun EXCEPT !.kind = "book", !.pat = p,
                                              !.pc = "queued", !.deact = D,
                                              !.origin = origin]],
       queue |-> Submit(Q, Tc(p), id),
       executors |-> EX \cup {Tc(p)}]

\* remove_patient: delete_patient deletes the row of table patients.  The
\* connection does not enable foreign keys, so the ON DELETE CASCADE of
\* table monitors does not act and the patient's monitors stay.
remove_patient(p) ==
    /\ p \in patients
    /\ patients' = patients \ {p}
    /\ UNCHANGED <<shutdown, manager, active_runs, idle_reads, clock, output, input, foreign_calls, loops,
                   stop_event, now, monitors, runs, queue, executors, botLock,
                   sessions, objs, buttons, finished>>

\* ----------------------------------------------------------- scheduler
\* The divisor of total_seconds() in monitor_loop.
SecondsPerMinute == 60

\* The timeout of monitor_loop's wait for the stop event.
WakeSeconds == 60

\* monitor_loop's test of one active monitor at time t.
\* elapsed = (now - last_exec).total_seconds() / 60.0 is compared with the
\* interval; over whole seconds that is the comparison of the seconds with
\* sixty times the interval.
should_run_gt(mon, t) ==
    \/ mon.last_checked = Null
    \/ t - mon.last_checked > mon.interval_minutes * SecondsPerMinute

should_run(mon, t) ==
    \/ mon.last_checked = Null
    \/ t - mon.last_checked >= mon.interval_minutes * SecondsPerMinute

\* A last_checked text with a UTC offset: fromisoformat parses it, and its
\* difference to the naive now raises TypeError, which the inner
\* `except ValueError` does not catch.
OffsetAware == -2

eval_raises(mon) == mon.last_checked = OffsetAware

\* The active rows that the for loop of one iteration gets to, in the order
\* of the rows: an exception of one row's test leaves the loop, to the
\* handler around the whole loop.
Evaluated ==
    {m \in MonitorIds :
        /\ monitors[m].is_active
        /\ \A k \in MonitorIds :
              (k <= m /\ monitors[k].is_active) => ~eval_raises(monitors[k])}

DueMonitors == {m \in Evaluated : should_run(monitors[m], now)}

\* The run id of the task created for due monitor m: the tasks are created
\* in the order of the rows.
TaskOf(m) ==
    CHOOSE r \in FreeRuns(runs) :
        Cardinality({x \in FreeRuns(runs) : x < r}) = Cardinality({y \in DueMonitors : y < m})

\* One iteration of monitor_loop: a task per due monitor, then the 60 s
\* wait.  The tasks created by the previous iteration have run up to their
\* first await before (the event loop is first in, first out).
Tick ==
    /\ \A r \in RunIds : runs[r].pc # "new"
    /\ Cardinality(DueMonitors) <= Cardinality(FreeRuns(runs))
    /\ runs' = [r \in RunIds |->
                  IF \E m \in DueMonitors : r = TaskOf(m)
                  THEN LET m == CHOOSE m \in DueMonitors : r = TaskOf(m)
                       IN [NoRun EXCEPT !.kind = "scan", !.mon = m,
                                        !.pat = monitors[m].patient_id, !.pc = "new"]
                  ELSE runs[r]]
    /\ now' = now + WakeSeconds
    /\ UNCHANGED <<shutdown, manager, active_runs, idle_reads, clock, output, input, foreign_calls, loops,
                   stop_event, patients, monitors, queue, executors, botLock,
                   sessions, objs, buttons, finished>>

\* _run_monitor registers the run's cancellation event under the monitor id
\* before the scan is handed to the executor.
register(A, m, r) == [A EXCEPT ![m] = r]

mon_pop_missing(A, m) == A

\* _run_monitor's finally: _active_runs.pop(monitor_id, None).
mon_pop(A, m) == [A EXCEPT ![m] = 0]

\* cancel_monitor: the events that a cancel of monitor m sets.
cancel_monitor(A, m) == IF A[m] # 0 THEN {A[m]} ELSE {}

\* A mutant of Preamble: nothing is validated again.
PreambleNoRevalidation(r) ==
    /\ runs[r].pc = "new"
    /\ LET m == runs[r].mon
           p == runs[r].pat
       IN  /\ monitors' = [monitors EXCEPT ![m].last_checked = now]
           /\ active_runs' = register(active_runs, m, r)
           /\ runs' = [runs EXCEPT ![r].pc = "queued"]
           /\ queue' = Submit(queue, Tc(p), r)
           /\ executors' = executors \cup {Tc(p)}
    /\ UNCHANGED <<shutdown, manager, idle_reads, clock, output, input, foreign_calls, loops,
                   stop_event, now, patients, botLock, sessions, objs, buttons,
                   finished>>

\* _run_monitor up to its await: skip a monitor that is no longer active,
\* deactivate one whose patient is gone, else write last_checked and hand
\* the scan to the identity's executor.
Preamble(r) ==
    /\ runs[r].pc = "new"
    /\ LET m == runs[r].mon
           p == runs[r].pat
       IN  IF ~monitors[m].is_active
           THEN /\ runs' = [runs EXCEPT ![r] = NoRun]
                /\ UNCHANGED <<monitors, queue, executors, active_runs>>
           ELSE IF p \notin patients
           THEN /\ monitors' = [monitors EXCEPT ![m].is_active = FALSE]
                /\ runs' = [runs EXCEPT ![r] = NoRun]
                /\ UNCHANGED <<queue, executors, active_runs>>
           ELSE /\ monitors' = [monitors EXCEPT ![m].last_checked = now]
                /\ active_runs' = register(active_runs, m, r)
                /\ runs' = [runs EXCEPT ![r].pc = "queued"]
                /\ queue' = Submit(queue, Tc(p), r)
                /\ executors' = executors \cup {Tc(p)}
    /\ UNCHANGED <<shutdown, manager, idle_reads, clock, output, input, foreign_calls, loops,
                   stop_event, now, patients, botLock, sessions, objs, buttons,
                   finished>>

\* A worker thread of identity t's executor takes the next queued task and
\* calls run_bot_with_session, which waits for _bot_lock.
StartTask(t) ==
    /\ queue[t] # <<>>
    /\ runs[Head(queue[t])].kind # "evict"
    /\ Cardinality(OnExecutor(runs, t)) < max_workers
    /\ runs' = [runs EXCEPT ![Head(queue[t])].pc = "waitlock"]
    /\ queue' = [queue EXCEPT ![t] = Tail(@)]
    /\ UNCHANGED <<shutdown, manager, active_runs, idle_reads, clock, output, input, foreign_calls, loops,
                   stop_event, now, patients, monitors, executors, botLock, sessions,
                   objs, buttons, finished>>

\* The lock is released when run_bot_with_session is left.
LockAfter(f, r) == IF f.pc \in {"returned", "raised"} THEN 0 ELSE r

SetSM(S) ==
    /\ sessions' = S.sessions
    /\ objs' = S.objs

\* run_bot_with_session takes _bot_lock and runs up to its first engine call.
Begin(r) ==
    /\ runs[r].pc = "waitlock"
    /\ botLock = 0
    /\ \E ctor_ok \in BOOLEAN, alive \in BOOLEAN, c \in CreateOutcomes(SM) :
          LET res == RunStart(SM, runs[r], ctor_ok, alive, c) IN
          /\ SetSM(res.S)
          /\ runs' = [runs EXCEPT ![r] = res.f]
          /\ botLock' = LockAfter(res.f, r)
    /\ UNCHANGED <<shutdown, manager, active_runs, idle_reads, clock, output, input, foreign_calls, loops,
                   stop_event, now, patients, monitors, queue, executors, buttons,
                   finished>>

\* run_bot_with_session from the end of an engine call of frame f on.
EngineEnd(S, f, o, booked, c) ==
    CASE f.pc = "reuse" -> ReuseReturn(S, f, o, booked, c)
      [] f.pc = "retry" -> RetryReturn(S, f, o, booked, c)
      [] OTHER -> LoginReturn(S, f, o, booked)

\* An engine call of run r ends.
EngineReturn(r) ==
    /\ runs[r].pc \in {"reuse", "retry", "login"}
    /\ \E o \in EngineOutcomes(runs[r]), c \in CreateOutcomes(SM) :
       \E booked \in BookedOutcomes(runs[r], o) :
          LET res == EngineEnd(SM, runs[r], o, booked, c) IN
          /\ SetSM(res.S)
          /\ runs' = [runs EXCEPT ![r] = res.f]
          /\ botLock' = LockAfter(res.f, r)
    /\ UNCHANGED <<shutdown, manager, active_runs, idle_reads, clock, output, input, foreign_calls, loops,
                   stop_event, now, patients, monitors, queue, executors, buttons,
                   finished>>

\* _run_monitor after its await: an exception of the executor call is
\* logged; else last_checked is written again and an AVAILABLE result with
\* slots is dispatched by the monitor's action_type; the registry entry of
\* the monitor is popped on every path.  dispatch_raises: the message send
\* of the dispatch raises, which _run_monitor logs.  slots: the result has
\* total_available > 0 and slots that pass the monitor's filters.
ScanPost(r) ==
    /\ runs[r].kind = "scan"
    /\ runs[r].pc \in {"returned", "raised"}
    /\ \E slots \in BOOLEAN, dispatch_raises \in BOOLEAN :
        LET m == runs[r].mon
            p == runs[r].pat
            M1 == [monitors EXCEPT ![m].last_checked = now]
            R1 == [runs EXCEPT ![r] = NoRun]
            book == /\ runs[r].status = "AVAILABLE" /\ slots /\ ~dispatch_raises
                    /\ monitors[m].action_type = "auto_book"
            ask == /\ runs[r].status = "AVAILABLE" /\ slots /\ ~dispatch_raises
                   /\ monitors[m].action_type = "ask_telegram"
            tb == trigger_booking(M1, R1, queue, executors, p, "monitor")
        IN  IF runs[r].pc = "raised"
            THEN /\ runs' = R1
                 /\ UNCHANGED <<monitors, queue, executors, buttons>>
            ELSE IF book
            THEN /\ monitors' = tb.monitors
                 /\ runs' = tb.runs
                 /\ queue' = tb.queue
                 /\ executors' = tb.executors
                 /\ UNCHANGED buttons
            ELSE /\ monitors' = M1
                 /\ runs' = R1
                 /\ buttons' = IF ask THEN buttons \cup {p} ELSE buttons
                 /\ UNCHANGED <<queue, executors>>
    /\ active_runs' = mon_pop(active_runs, runs[r].mon)
    /\ UNCHANGED <<shutdown, manager, idle_reads, clock, output, input, foreign_calls, loops,
                   stop_event, now, patients, botLock, sessions, objs, finished>>

\* run_bot_with_session(config, status_callback, cancel_event) is handed to
\* the identity's executor; cb_raises tells whether the callback raises when
\* it is called.
submit_search(p, cb_raises) ==
    /\ p \in patients
    /\ FreeRuns(runs) # {}
    /\ runs' = [runs EXCEPT ![NewRun(runs)] = [NoRun EXCEPT !.kind = "search", !.pat = p,
                                                            !.pc = "queued",
                                                            !.cb_raises = cb_raises]]
    /\ queue' = Submit(queue, Tc(p), NewRun(runs))
    /\ executors' = executors \cup {Tc(p)}
    /\ UNCHANGED <<shutdown, manager, active_runs, idle_reads, clock, output, input, foreign_calls, loops,
                   stop_event, now, patients, monitors, botLock, sessions, objs,
                   buttons, finished>>

\* ws_search: a search or book action of the operator; its status callback
\* swallows what the websocket send raises.
ManualSearch(p) == submit_search(p, FALSE)

\* run_search_async after its await: the result goes to the websocket.
SearchPost(r) ==
    /\ runs[r].kind = "search"
    /\ runs[r].pc \in {"returned", "raised"}
    /\ runs' = [runs EXCEPT ![r] = NoRun]
    /\ UNCHANGED <<shutdown, manager, active_runs, idle_reads, clock, output, input, foreign_calls, loops,
                   stop_event, now, patients, monitors, queue, executors, botLock,
                   sessions, objs, buttons, finished>>

\* _handle_update for a book| callback: the operator pressed a button of a
\* message sent for patient p.
TelegramBook(p) ==
    /\ p \in buttons
    /\ p \in patients
    /\ FreeRuns(runs) # {}
    /\ LET tb == trigger_booking(monitors, runs, queue, executors, p, "telegram") IN
        /\ monitors' = tb.monitors
        /\ runs' = tb.runs
        /\ queue' = tb.queue
        /\ executors' = tb.executors
    /\ UNCHANGED <<shutdown, manager, active_runs, idle_reads, clock, output, input, foreign_calls, loops,
                   stop_event, now, patients, botLock, sessions, objs, buttons,
                   finished>>

\* The history before any booking flow has ended.
NoBooking == [pat |-> 0, deact |-> {}, success |-> FALSE]

\* _run after run_bot_with_session: a booking that did not succeed sets the
\* patient's inactive monitors active again.
BookingFinish(r) ==
    /\ runs[r].kind = "book"
    /\ runs[r].pc \in {"returned", "raised"}
    /\ LET success == runs[r].pc = "returned" /\ runs[r].booked IN
        /\ monitors' = IF success THEN monitors ELSE Reactivate(monitors, runs[r].pat)
        /\ finished' = IF runs[r].deact = {} THEN finished
                       ELSE [pat |-> runs[r].pat, deact |-> runs[r].deact,
                             success |-> success]
    /\ runs' = [runs EXCEPT ![r] = NoRun]
    /\ UNCHANGED <<shutdown, manager, active_runs, idle_reads, clock, output, input, foreign_calls, loops,
                   stop_event, now, patients, queue, executors, botLock, sessions,
                   objs, buttons>>

\* start_scheduler: clear the stop event and create a monitor_loop task.
start_scheduler ==
    /\ stop_event' = FALSE
    /\ loops' = loops + 1

\* stop_scheduler: set the stop event.
stop_scheduler ==
    /\ stop_event' = TRUE
    /\ UNCHANGED loops

\* _finalize_monitor_creation: the monitor set up in the chat is stored as
\* row m, with an interval of five minutes, and the scheduler is started.
finalize_monitor_creation(p, m, a) ==
    /\ monitors[m] = NoMonitor
    /\ monitors' = [monitors EXCEPT ![m] = MonitorRow(p, a, 5)]
    /\ start_scheduler
    /\ UNCHANGED <<shutdown, manager, active_runs, idle_reads, clock, output, input, foreign_calls,
                   now, patients, runs, queue, executors, botLock, sessions, objs,
                   buttons, finished>>

\* A caller of stop_scheduler.
StopScheduler ==
    /\ stop_scheduler
    /\ UNCHANGED <<shutdown, manager, active_runs, idle_reads, clock, output, input, foreign_calls,
                   now, patients, monitors, runs, queue, executors, botLock,
                   sessions, objs, buttons, finished>>

\* A monitor_loop task tests its while condition and finds the event set:
\* the task ends.
LoopEnd ==
    /\ loops > 0
    /\ stop_event
    /\ loops' = loops - 1
    /\ UNCHANGED <<shutdown, manager, active_runs, idle_reads, clock, output, input, foreign_calls,
                   stop_event, now, patients, monitors, runs, queue, executors,
                   botLock, sessions, objs, buttons, finished>>

\* A mutant of LoopIterate: the while condition is not tested.
LoopIterateIgnoresStop ==
    /\ loops > 0
    /\ Tick

\* A monitor_loop task tests its while condition, finds the event clear and
\* makes an iteration.
LoopIterate ==
    /\ loops > 0
    /\ ~stop_event
    /\ Tick

\* GET /api/session/{patient_id}: the request thread calls get_status, which
\* reads the pool entry and, if there is one, asks is_page_alive() of it.
get_session_status(p) ==
    /\ p \in patients
    /\ \E alive \in BOOLEAN : SetSM(get_status(SM, Tc(p), alive).S)
    /\ foreign_calls' =
          IF sessions[Tc(p)] = 0 THEN foreign_calls
          ELSE foreign_calls \cup {[thread |-> "request", tc |-> Tc(p)]}
    /\ UNCHANGED <<shutdown, manager, active_runs, idle_reads, clock, output, input, now, patients, monitors, runs,
                   queue, executors, botLock, buttons, stop_event, loops, finished>>

\* close_all has not been called.
NoShutdown == [pc |-> "idle", tcs |-> {}]

\* The shutdown hook of the application calls close_all itself; close_all
\* first copies the keys of the pool under the lock.
on_shutdown ==
    /\ shutdown.pc = "idle"
    /\ shutdown' = [pc |-> "closing", tcs |-> {t \in Tcs : sessions[t] # 0}]
    /\ UNCHANGED <<manager, active_runs, idle_reads, clock, output, input, now, patients,
                   monitors, runs, queue, executors, botLock, sessions, objs, buttons,
                   stop_event, loops, foreign_calls, finished>>

\* close_all's loop: close_session for the next identity of the copy, on
\* the thread of the hook; what the close raises is swallowed.
close_all_step(t) ==
    /\ shutdown.pc = "closing"
    /\ t \in shutdown.tcs
    /\ shutdown' = [shutdown EXCEPT !.tcs = @ \ {t}]
    /\ SetSM(close_session(SM, t))
    /\ foreign_calls' = IF sessions[t] = 0 THEN foreign_calls
                         ELSE foreign_calls \cup {[thread |-> "shutdown", tc |-> t]}
    /\ UNCHANGED <<manager, active_runs, idle_reads, clock, output, input, now, patients,
                   monitors, runs, queue, executors, botLock, buttons, stop_event, loops,
                   finished>>

\* close_all returns when the copy is worked off.
close_all_return ==
    /\ shutdown.pc = "closing"
    /\ shutdown.tcs = {}
    /\ shutdown' = [shutdown EXCEPT !.pc = "returned"]
    /\ UNCHANGED <<manager, active_runs, idle_reads, clock, output, input, now, patients,
                   monitors, runs, queue, executors, botLock, sessions, objs, buttons,
                   stop_event, loops, foreign_calls, finished>>

\* -------------------------------------------------------------- filters
\* A Python string is the sequence of its characters.
Digits == <<"0", "1", "2", "3", "4", "5", "6", "7", "8", "9">>

IsDigit(c) == \E n \in 1..10 : Digits[n] = c

DigitVal(c) == (CHOOSE n \in 1..10 : Digits[n] = c) - 1

AllDigits(s) == \A i \in 1..Len(s) : IsDigit(s[i])

\* int() of a string of digits.
RECURSIVE Num(_)
Num(s) == IF s = <<>> THEN 0 ELSE Num(SubSeq(s, 1, Len(s) - 1)) * 10 + DigitVal(s[Len(s)])

Contains(s, c) == \E i \in 1..Len(s) : s[i] = c

\* str.split(sep) for a separator of one character.
RECURSIVE split(_, _)
split(s, sep) ==
    IF ~Contains(s, sep) THEN <<s>>
    ELSE LET i == CHOOSE k \in 1..Len(s) : s[k] = sep /\ \A j \in 1..(k - 1) : s[j] # sep
         IN  <<SubSeq(s, 1, i - 1)>> \o split(SubSeq(s, i + 1, Len(s)), sep)

\* str.strip(): the blanks at both ends are dropped.
RECURSIVE strip(_)
strip(s) ==
    IF s = <<>> THEN s
    ELSE IF s[1] = " " THEN strip(Tail(s))
    ELSE IF s[Len(s)] = " " THEN strip(SubSeq(s, 1, Len(s) - 1))
    ELSE s

\* The result of a strptime call that raises ValueError.
ValueError == <<>>

IsLeap(y) == (y % 4 = 0 /\ y % 100 # 0) \/ y % 400 = 0

DaysInMonth(y, m) ==
    IF m = 2 THEN (IF IsLeap(y) THEN 29 ELSE 28)
    ELSE IF m \in {4, 6, 9, 11} THEN 30 ELSE 31

\* The directives of strptime as the fields they accept:
\* %d (3[0-1]|[1-2]\d|0[1-9]|[1-9]| [1-9]), %m (1[0-2]|0[1-9]|[1-9]),
\* %Y (\d\d\d\d), %H (2[0-3]|[0-1]\d|\d), %M ([0-5]\d|\d).
DayField(f) ==
    \/ Len(f) = 1 /\ IsDigit(f[1]) /\ f[1] # "0"
    \/ Len(f) = 2 /\ f[1] \in {"0", " "} /\ IsDigit(f[2]) /\ f[2] # "0"
    \/ Len(f) = 2 /\ AllDigits(f) /\ Num(f) \in 10..31

MonthField(f) ==
    \/ Len(f) = 1 /\ IsDigit(f[1]) /\ f[1] # "0"
    \/ Len(f) = 2 /\ AllDigits(f) /\ Num(f) \in 1..12

YearField(f) == Len(f) = 4 /\ AllDigits(f)

HourField(f) ==
    \/ Len(f) = 1 /\ IsDigit(f[1])
    \/ Len(f) = 2 /\ AllDigits(f) /\ Num(f) \in 0..23

MinuteField(f) ==
    \/ Len(f) = 1 /\ IsDigit(f[1])
    \/ Len(f) = 2 /\ AllDigits(f) /\ Num(f) \in 0..59

\* datetime.strptime(s, "%d.%m.%Y"): the date as <<year, month, day>>.
strptime_date(s) ==
    LET p == split(s, ".") IN
    IF Len(p) # 3 THEN ValueError
    ELSE IF ~(DayField(p[1]) /\ MonthField(p[2]) /\ YearField(p[3])) THEN ValueError
    ELSE LET d == Num(strip(p[1]))
             m == Num(p[2])
             y == Num(p[3])
         IN  IF y < 1 \/ d > DaysInMonth(y, m) THEN ValueError ELSE <<y, m, d>>

\* The comparisons of two datetime values.
date_le(a, b) ==
    \/ a[1] < b[1]
    \/ a[1] = b[1] /\ a[2] < b[2]
    \/ a[1] = b[1] /\ a[2] = b[2] /\ a[3] <= b[3]

\* date.strftime("%d.%m.%Y").
TwoDigits(n) == <<Digits[(n \div 10) + 1], Digits[(n % 10) + 1]>>

strftime_date(d) ==
    TwoDigits(d[3]) \o <<".">> \o TwoDigits(d[2]) \o <<".">>
    \o TwoDigits(d[1] \div 100) \o TwoDigits(d[1] % 100)

\* date + timedelta(days=1).
next_day(d) ==
    IF d[3] < DaysInMonth(d[1], d[2]) THEN <<d[1], d[2], d[3] + 1>>
    ELSE IF d[2] < 12 THEN <<d[1], d[2] + 1, 1>>
    ELSE <<d[1] + 1, 1, 1>>

\* The token of the filter for today and tomorrow.
bugun == <<"b", "u", "g", "u", "n">>

\* _date_matches(date_str, date_range), today being the date of
\* datetime.now().
date_matches_open_range(date_str, date_range, today) ==
    IF date_range = bugun
    THEN date_str \in {strftime_date(today), strftime_date(next_day(today))}
    ELSE LET d == strptime_date(date_str) IN
         IF d = ValueError THEN TRUE
         ELSE IF Contains(date_range, "-")
         THEN LET parts == split(date_range, "-") IN
              IF Len(parts) # 2 THEN TRUE
              ELSE LET start == strptime_date(strip(parts[1]))
                       end == strptime_date(strip(parts[2]))
                   IN  IF start = ValueError \/ end = ValueError THEN TRUE
                       ELSE date_le(start, d) /\ date_le(d, end) /\ d # start /\ d # end
         ELSE LET target == strptime_date(strip(date_range)) IN
              IF target = ValueError THEN TRUE ELSE d = target

date_matches(date_str, date_range, today) ==
    IF date_range = bugun
    THEN date_str \in {strftime_date(today), strftime_date(next_day(today))}
    ELSE LET d == strptime_date(date_str) IN
         IF d = ValueError THEN TRUE
         ELSE IF Contains(date_range, "-")
         THEN LET parts == split(date_range, "-") IN
              IF Len(parts) # 2 THEN TRUE
              ELSE LET start == strptime_date(strip(parts[1]))
                       end == strptime_date(strip(parts[2]))
                   IN  IF start = ValueError \/ end = ValueError THEN TRUE
                       ELSE date_le(start, d) /\ date_le(d, end)
         ELSE LET target == strptime_date(strip(date_range)) IN
              IF target = ValueError THEN TRUE ELSE d = target

\* datetime.strptime(s, "%H:%M").time(): the time as <<hour, minute>>.
strptime_time(s) ==
    LET p == split(s, ":") IN
    IF Len(p) # 2 THEN ValueError
    ELSE IF ~(HourField(p[1]) /\ MinuteField(p[2])) THEN ValueError
    ELSE <<Num(p[1]), Num(p[2])>>

\* The comparison of two time values.
time_le(a, b) == a[1] < b[1] \/ (a[1] = b[1] /\ a[2] <= b[2])

\* The word the monitor set-up stores for no filter.
Yok == <<"Y", "o", "k">>

\* An end of the range that was left empty.
None == <<"None">>

\* _time_matches(time_str, time_range).
time_matches_end_ignored(time_str, time_range) ==
    IF time_range = <<>> \/ time_range = Yok THEN TRUE
    ELSE LET t == strptime_time(strip(time_str)) IN
         IF t = ValueError THEN TRUE
         ELSE IF ~Contains(time_range, "-") THEN TRUE
         ELSE LET parts == split(time_range, "-")
                  start == IF strip(parts[1]) = <<>> THEN None
                           ELSE strptime_time(strip(parts[1]))
                  end == IF strip(parts[2]) = <<>> THEN None
                         ELSE strptime_time(strip(parts[2]))
              IN  IF start = ValueError \/ end = ValueError THEN TRUE
                  ELSE IF start # None THEN time_le(start, t)
                  ELSE IF end # None THEN time_le(t, end)
                  ELSE TRUE

time_matches(time_str, time_range) ==
    IF time_range = <<>> \/ time_range = Yok THEN TRUE
    ELSE LET t == strptime_time(strip(time_str)) IN
         IF t = ValueError THEN TRUE
         ELSE IF ~Contains(time_range, "-") THEN TRUE
         ELSE LET parts == split(time_range, "-")
                  start == IF strip(parts[1]) = <<>> THEN None
                           ELSE strptime_time(strip(parts[1]))
                  end == IF strip(parts[2]) = <<>> THEN None
                         ELSE strptime_time(strip(parts[2]))
              IN  IF start = ValueError \/ end = ValueError THEN TRUE
                  ELSE IF start # None /\ end # None
                  THEN time_le(start, t) /\ time_le(t, end)
                  ELSE IF start # None THEN time_le(start, t)
                  ELSE IF end # None THEN time_le(t, end)
                  ELSE TRUE

\* _filter_probed's test of a filter argument: `x and x != "Yok"`.
IsFilter(x) == x # <<>> /\ x # Yok

\* The list comprehension over the sub-times of one slot.
matching_times(item, time_range) ==
    IF IsFilter(time_range)
    THEN SelectSeq(item.subtimes, LAMBDA st : time_matches(st, time_range))
    ELSE item.subtimes

\* _filter_probed(probed, date_range, time_range): the slots whose date passes
\* and that keep a sub-time, in the order of probed.
RECURSIVE filter_probed(_, _, _, _)
filter_probed(probed, date_range, time_range, today) ==
    IF probed = <<>> THEN <<>>
    ELSE LET item == Head(probed)
             rest == filter_probed(Tail(probed), date_range, time_range, today)
         IN  IF IsFilter(date_range) /\ ~date_matches(item.date, date_range, today)
             THEN rest
             ELSE IF matching_times(item, time_range) = <<>> THEN rest
             ELSE <<[date |-> item.date, hour |-> item.hour,
                     subtimes |-> matching_times(item, time_range)]>> \o rest

\* No booking is started.
NoTarget == [date |-> <<>>, hour |-> <<>>, subtime |-> <<>>]

\* _handle_monitor_result for auto_book: the book_target taken from the
\* filtered slots, none if the list is empty.
book_target(filtered) ==
    IF filtered = <<>> THEN NoTarget
    ELSE LET last == filtered[Len(filtered)] IN
         [date |-> last.date, hour |-> last.hour,
          subtime |-> last.subtimes[Len(last.subtimes)]]

\* str(n) of a non-negative integer.
RECURSIVE str(_)
str(n) == IF n < 10 THEN <<Digits[n + 1]>> ELSE str(n \div 10) \o <<Digits[(n % 10) + 1]>>

\* A character outside ASCII, which str.encode() turns into two bytes.
TwoByte == {"U+015F"}

\* len(s.encode()): the length of the UTF-8 encoding.
RECURSIVE encoded_len(_)
encoded_len(x) ==
    IF x = <<>> THEN 0
    ELSE (IF Head(x) \in TwoByte THEN 2 ELSE 1) + encoded_len(Tail(x))

\* Telegram's limit on callback_data, in bytes.
CallbackDataMax == 64

\* f"book|{patient['id']}|{item['date']}|{item['hour']}|{st}"
cb_data(pid, item, st) ==
    <<"b", "o", "o", "k", "|">> \o str(pid) \o <<"|">> \o item.date
    \o <<"|">> \o item.hour \o <<"|">> \o st

buttons_unlimited(pid, item) ==
    [i \in 1..Len(item.subtimes) |-> cb_data(pid, item, item.subtimes[i])]

\* The buttons of one filtered slot: one per sub-time whose payload fits.
buttons_of_item(pid, item) ==
    SelectSeq([i \in 1..Len(item.subtimes) |-> cb_data(pid, item, item.subtimes[i])],
              LAMBDA d : encoded_len(d) <= CallbackDataMax)

\* The loop over filtered that builds the buttons (their callback_data).
RECURSIVE buttons_of(_, _)
buttons_of(pid, filtered) ==
    IF filtered = <<>> THEN <<>>
    ELSE buttons_of_item(pid, Head(filtered)) \o buttons_of(pid, Tail(filtered))

\* A send_telegram_message_sync call, and a
\* send_notification_with_buttons_sync call with its buttons.
Text(kind) == [kind |-> kind, buttons |-> <<>>]
WithButtons(b) == [kind |-> "choose", buttons |-> b]

notify_only_filtered(filtered) ==
    IF filtered # <<>> THEN <<Text("slots")>> ELSE <<>>

\* The notify branch: one text, from the filtered slots or else from the
\* alternatives.
notify(filtered) ==
    IF filtered # <<>> THEN <<Text("slots")>> ELSE <<Text("alternatives")>>

\* The ask_telegram branch.
ask_telegram(pid, filtered) ==
    IF filtered = <<>> THEN <<Text("no_match")>>
    ELSE IF buttons_of(pid, filtered) # <<>>
    THEN <<WithButtons(buttons_of(pid, filtered))>>
    ELSE <<Text("no_button")>>

\* _handle_monitor_result(monitor, patient, result, action_type): the
\* messages it sends and the booking it triggers (_trigger_booking is its
\* only call that writes to the store or submits a run).
handle_monitor_result(action_type, pid, filtered) ==
    CASE action_type = "notify" ->
            [messages |-> notify(filtered), booking |-> NoTarget]
      [] action_type = "ask_telegram" ->
            [messages |-> ask_telegram(pid, filtered), booking |-> NoTarget]
      [] action_type = "auto_book" ->
            IF filtered = <<>>
            THEN [messages |-> <<Text("no_match")>>, booking |-> NoTarget]
            ELSE [messages |-> <<Text("booking")>>, booking |-> book_target(filtered)]
      [] OTHER -> [messages |-> <<>>, booking |-> NoTarget]

\* --------------------------------------------------------- idle eviction
\* The patient row of an identity.
PatientOf(t) == CHOOSE p \in PatientIds : Tc(p) = t

\* The identities a sweep at time c finds expired (read by the eviction
\* thread, under the pool's lock).
Expired(S, c) ==
    {t \in Tcs : S.sessions[t] # 0
                 /\ idle_seconds([S EXCEPT !.clock = c], S.sessions[t]) > idle_timeout}

\* Nothing is submitted.
submit_nothing(R, Q, T) == [runs |-> R, queue |-> Q]

\* executor.submit(self.close_session, tc) for every identity of T: a task
\* is queued on the identity's executor.
RECURSIVE submit_close(_, _, _)
submit_close(R, Q, T) ==
    IF T = {} THEN [runs |-> R, queue |-> Q]
    ELSE LET t == CHOOSE x \in T : \A y \in T : x <= y
             r == NewRun(R)
         IN  submit_close([R EXCEPT ![r] = [NoRun EXCEPT !.kind = "evict",
                                                         !.pat = PatientOf(t),
                                                         !.pc = "queued"]],
                          Submit(Q, t, r), T \ {t})

\* One iteration of _cleanup_loop that wakes at time c: collect the expired
\* identities and submit a close for each.  The loop reads bs.idle_seconds of
\* every pooled session on its own thread.  When the iteration raises, the
\* exception ends it early, having submitted for the identities of done
\* only, and is swallowed.
cleanup_iteration(c, raised) ==
    /\ clock' = c
    /\ LET expired == Expired(SM, c) IN
       /\ Cardinality(expired) <= Cardinality(FreeRuns(runs))
       /\ \E done \in (IF raised THEN (SUBSET expired) \ {expired} ELSE {expired}) :
            LET sub == submit_close(runs, queue, done) IN
            /\ runs' = sub.runs
            /\ queue' = sub.queue
            /\ executors' = executors \cup done
    /\ idle_reads' = idle_reads \cup {t \in Tcs : sessions[t] # 0}
    /\ UNCHANGED <<shutdown, manager, active_runs, now, patients, monitors, botLock, sessions, objs, buttons,
                   stop_event, loops, foreign_calls, input, output, finished>>

\* time.sleep(self._cleanup_interval), then the iteration.
cleanup_sweep ==
    \E raised \in BOOLEAN : cleanup_iteration(clock + cleanup_interval, raised)

\* The identity's worker runs a queued close_session task.
EvictTask(t) ==
    /\ queue[t] # <<>>
    /\ runs[Head(queue[t])].kind = "evict"
    /\ Cardinality(OnExecutor(runs, t)) < max_workers
    /\ SetSM(close_session(SM, t))
    /\ runs' = [runs EXCEPT ![Head(queue[t])] = NoRun]
    /\ queue' = [queue EXCEPT ![t] = Tail(@)]
    /\ UNCHANGED <<shutdown, manager, active_runs, idle_reads, now, patients, monitors, executors, botLock, buttons,
                   stop_event, loops, foreign_calls, clock, input, output, finished>>

\* --------------------------------------------- SessionManager() singleton
\* The threads that call SessionManager() and then get_executor for one
\* identity: request handlers of the thread pool, the event loop, workers.
Callers == 1..MaxCallers

\* instance: cls._instance is set.  initialized: the instance's
\* _initialized attribute ("unset" before __new__ assigns it).  lock: the
\* caller that holds cls._lock.  maps: how often __init__ created the
\* session and executor maps and _session_lock.  threads: how many cleanup
\* threads were started.  executor: the entry of _executors for the
\* identity, 0 when absent.  made: the executors constructed so far.
\* got: the executor that get_executor returned to each caller.
NoManager ==
    [instance |-> FALSE, initialized |-> "unset", lock |-> 0, maps |-> 0,
     threads |-> 0, executor |-> 0, made |-> 0,
     pc |-> [c \in Callers |-> "start"], got |-> [c \in Callers |-> 0]]

\* The manager after a first SessionManager() call that ran alone.
BuiltManager ==
    [NoManager EXCEPT !.instance = TRUE, !.initialized = "yes", !.maps = 1, !.threads = 1]

At(c, l) == manager.pc[c] = l
Goto(mg, c, l) == [mg EXCEPT !.pc[c] = l]

Rest ==
    UNCHANGED <<now, patients, monitors, runs, queue, executors, botLock, sessions,
                objs, buttons, stop_event, loops, foreign_calls, input, output,
                clock, idle_reads, active_runs, shutdown, finished>>

\* __new__: if cls._instance is None
NewCheck(c) ==
    /\ At(c, "start")
    /\ manager' = Goto(manager, c, IF manager.instance THEN "init" ELSE "lock")
    /\ Rest

\* __new__: with cls._lock
NewLock(c) ==
    /\ At(c, "lock")
    /\ manager.lock = 0
    /\ manager' = Goto([manager EXCEPT !.lock = c], c, "recheck")
    /\ Rest

\* __new__: the second test, under the lock
NewRecheck(c) ==
    /\ At(c, "recheck")
    /\ manager' = IF manager.instance
                   THEN Goto([manager EXCEPT !.lock = 0], c, "init")
                   ELSE Goto(manager, c, "create")
    /\ Rest

\* __new__: cls._instance = super().__new__(cls)
NewCreate(c) ==
    /\ At(c, "create")
    /\ manager' = Goto([manager EXCEPT !.instance = TRUE], c, "flag")
    /\ Rest

\* __new__: cls._instance._initialized = False, and the lock is released
NewFlag(c) ==
    /\ At(c, "flag")
    /\ manager' = Goto([manager EXCEPT !.initialized = "no", !.lock = 0], c, "init")
    /\ Rest

\* __init__: if self._initialized: return.  The attribute does not exist
\* before __new__ has assigned it (AttributeError).
InitCheck(c) ==
    /\ At(c, "init")
    /\ manager' = Goto(manager, c,
                       CASE manager.initialized = "unset" -> "failed"
                         [] manager.initialized = "yes" -> "have"
                         [] OTHER -> "set")
    /\ Rest

\* __init__: self._initialized = True
InitSet(c) ==
    /\ At(c, "set")
    /\ manager' = Goto([manager EXCEPT !.initialized = "yes"], c, "maps")
    /\ Rest

\* __init__: self._sessions = {}; self._executors = {};
\* self._session_lock = threading.Lock()
InitMaps(c) ==
    /\ At(c, "maps")
    /\ manager' = Goto([manager EXCEPT !.maps = @ + 1, !.executor = 0], c, "thread")
    /\ Rest

\* __init__: the cleanup thread is created and started
InitThread(c) ==
    /\ At(c, "thread")
    /\ manager' = Goto([manager EXCEPT !.threads = @ + 1], c, "have")
    /\ Rest

\* get_executor(tc) on the instance that SessionManager() returned: under
\* _session_lock, the entry is created when absent and returned.  Before
\* __init__ has created the maps the attributes do not exist.
GetExecutor(c) ==
    /\ At(c, "have")
    /\ manager' =
          IF manager.maps = 0
          THEN Goto(manager, c, "failed")
          ELSE LET e == IF manager.executor = 0 THEN manager.made + 1
                        ELSE manager.executor
               IN Goto([manager EXCEPT !.executor = e,
                                       !.made = IF e > @ THEN e ELSE @,
                                       !.got[c] = e], c, "done")
    /\ Rest

\* -------------------------------------------------------- specification
InitCommon ==
    /\ now = 0
    /\ patients = PatientIds
    /\ runs = [r \in RunIds |-> NoRun]
    /\ queue = [t \in Tcs |-> <<>>]
    /\ executors = {}
    /\ botLock = 0
    /\ sessions = [t \in Tcs |-> 0]
    /\ objs = [s \in Sids |-> NoSession]
    /\ buttons = {}
    /\ stop_event = FALSE
    /\ loops = 0
    /\ foreign_calls = {}
    /\ input = <<>>
    /\ output = <<>>
    /\ clock = 0
    /\ idle_reads = {}
    /\ active_runs = [m \in MonitorIds |-> 0]
    /\ manager = BuiltManager
    /\ shutdown = NoShutdown
    /\ finished = NoBooking

\* The automatic booking flow: one patient with two auto_book monitors that
\* are due in the same iteration of the scheduler.
Init ==
    /\ InitCommon
    /\ monitors = [m \in MonitorIds |-> MonitorRow(1, "auto_book", 1)]

\* The scheduler's iterations of this scenario.
BookTick == now < MaxBookTime * WakeSeconds /\ Tick

Next ==
    \/ BookTick
    \/ \E r \in RunIds : Preamble(r)
    \/ \E t \in Tcs : StartTask(t)
    \/ \E r \in RunIds : Begin(r)
    \/ \E r \in RunIds : EngineReturn(r)
    \/ \E r \in RunIds : ScanPost(r)
    \/ \E r \in RunIds : BookingFinish(r)

Spec == Init /\ [][Next]_vars

\* The automatic booking flow while the operator deletes the patient.
RevalRemove == \E m \in MonitorIds : remove_patient(monitors[m].patient_id)

NextReval ==
    \/ BookTick
    \/ \E r \in RunIds : Preamble(r)
    \/ \E t \in Tcs : StartTask(t)
    \/ \E r \in RunIds : Begin(r)
    \/ \E r \in RunIds : EngineReturn(r)
    \/ \E r \in RunIds : ScanPost(r)
    \/ \E r \in RunIds : BookingFinish(r)
    \/ RevalRemove

SpecReval == Init /\ [][NextReval]_vars

\* The scheduler alone: one notify monitor with an interval of one minute.
InitSched ==
    /\ InitCommon
    /\ monitors = (1 :> MonitorRow(1, "notify", 1)) @@ (2 :> NoMonitor)

\* The scheduler's iterations of this scenario.
SchedTick == now < MaxTime * WakeSeconds /\ Tick

NextSched ==
    \/ SchedTick
    \/ \E r \in RunIds : Preamble(r)
    \/ \E t \in Tcs : StartTask(t)
    \/ \E r \in RunIds : Begin(r)
    \/ \E r \in RunIds : EngineReturn(r)
    \/ \E r \in RunIds : ScanPost(r)

SpecSched == InitSched /\ [][NextSched]_vars

\* The scheduler with one notify monitor for each of two identities, where
\* the scans of identity 1 may stay in the engine for ever.  The event loop
\* runs every task that is ready, each executor's worker takes the next task
\* of its queue, and an engine call of identity 2 comes to its end.
InitStuck ==
    /\ InitCommon
    /\ monitors = (1 :> MonitorRow(1, "notify", 1)) @@ (2 :> MonitorRow(2, "notify", 1))

EngineReturnOf(t) == \E r \in RunIds : Tc(runs[r].pat) = t /\ EngineReturn(r)

SpecStuck ==
    /\ InitStuck
    /\ [][NextSched]_vars
    /\ WF_vars(SchedTick)
    /\ \A r \in RunIds : WF_vars(Preamble(r)) /\ WF_vars(Begin(r)) /\ WF_vars(ScanPost(r))
    /\ \A t \in Tcs : WF_vars(StartTask(t))
    /\ WF_vars(EngineReturnOf(Tc(2)))

\* The scheduler over a store with two active notify monitors, where the
\* first row's last_checked is empty or carries a UTC offset.
InitIso ==
    /\ InitCommon
    /\ \E lc \in {Null, OffsetAware} :
          monitors = (1 :> [MonitorRow(1, "notify", 1) EXCEPT !.last_checked = lc])
                     @@ (2 :> MonitorRow(2, "notify", 1))

SpecIso == InitIso /\ [][NextSched]_vars

\* The first calls of SessionManager() in the process, from several threads
\* at once, each followed by get_executor for the same identity.
InitSingleton ==
    /\ manager = NoManager
    /\ now = 0
    /\ patients = PatientIds
    /\ monitors = [m \in MonitorIds |-> NoMonitor]
    /\ runs = [r \in RunIds |-> NoRun]
    /\ queue = [t \in Tcs |-> <<>>]
    /\ executors = {}
    /\ botLock = 0
    /\ sessions = [t \in Tcs |-> 0]
    /\ objs = [s \in Sids |-> NoSession]
    /\ buttons = {}
    /\ stop_event = FALSE
    /\ loops = 0
    /\ foreign_calls = {}
    /\ input = <<>>
    /\ output = <<>>
    /\ clock = 0
    /\ idle_reads = {}
    /\ active_runs = [m \in MonitorIds |-> 0]
    /\ shutdown = NoShutdown
    /\ finished = NoBooking

NextSingleton ==
    \/ \E c \in Callers : NewCheck(c)
    \/ \E c \in Callers : NewLock(c)
    \/ \E c \in Callers : NewRecheck(c)
    \/ \E c \in Callers : NewCreate(c)
    \/ \E c \in Callers : NewFlag(c)
    \/ \E c \in Callers : InitCheck(c)
    \/ \E c \in Callers : InitSet(c)
    \/ \E c \in Callers : InitMaps(c)
    \/ \E c \in Callers : InitThread(c)
    \/ \E c \in Callers : GetExecutor(c)

SpecSingleton == InitSingleton /\ [][NextSingleton]_vars

\* Every source of runs for one identity: a monitor that asks the operator,
\* and the operator's button presses and searches.
InitOps ==
    /\ InitCommon
    /\ monitors = (1 :> MonitorRow(1, "ask_telegram", 1)) @@ (2 :> NoMonitor)

\* There is room for n more runs in this scenario.
RoomOps(n) == Cardinality(LiveRuns(runs)) + n <= MaxOpsRuns

OpsTick == now < MaxOpsTime * WakeSeconds /\ RoomOps(Cardinality(DueMonitors)) /\ Tick

OpsBook(p) == RoomOps(1) /\ TelegramBook(p)

OpsSearch == RoomOps(1) /\ ManualSearch(1)

NextOps ==
    \/ OpsTick
    \/ \E r \in RunIds : Preamble(r)
    \/ \E t \in Tcs : StartTask(t)
    \/ \E r \in RunIds : Begin(r)
    \/ \E r \in RunIds : EngineReturn(r)
    \/ \E r \in RunIds : ScanPost(r)
    \/ \E p \in PatientIds : OpsBook(p)
    \/ \E r \in RunIds : BookingFinish(r)
    \/ OpsSearch
    \/ \E r \in RunIds : SearchPost(r)

SpecOps == InitOps /\ [][NextOps]_vars

\* The run coordinator and the session pool under the searches of one
\* identity's operator, no monitor in the table.
InitRun ==
    /\ InitCommon
    /\ monitors = [m \in MonitorIds |-> NoMonitor]

RunSearch == Cardinality(LiveRuns(runs)) < MaxSearches /\ ManualSearch(1)

NextRun ==
    \/ RunSearch
    \/ \E t \in Tcs : StartTask(t)
    \/ \E r \in RunIds : Begin(r)
    \/ \E r \in RunIds : EngineReturn(r)
    \/ \E r \in RunIds : SearchPost(r)

SpecRun == InitRun /\ [][NextRun]_vars

\* run_bot_with_session called with status callbacks that raise and with
\* status callbacks that do not.
CallbackSearch ==
    /\ Cardinality(LiveRuns(runs)) < MaxSearches
    /\ \E cb_raises \in BOOLEAN : submit_search(1, cb_raises)

NextCallback ==
    \/ CallbackSearch
    \/ \E t \in Tcs : StartTask(t)
    \/ \E r \in RunIds : Begin(r)
    \/ \E r \in RunIds : EngineReturn(r)
    \/ \E r \in RunIds : SearchPost(r)

SpecCallback == InitRun /\ [][NextCallback]_vars

\* The operators of two identities, each with at most one search under way.
InitPar ==
    /\ InitCommon
    /\ monitors = [m \in MonitorIds |-> NoMonitor]

ParSearch(p) ==
    /\ \A r \in LiveRuns(runs) : runs[r].pat # p
    /\ ManualSearch(p)

NextPar ==
    \/ \E p \in PatientIds : ParSearch(p)
    \/ \E t \in Tcs : StartTask(t)
    \/ \E r \in RunIds : Begin(r)
    \/ \E r \in RunIds : EngineReturn(r)
    \/ \E r \in RunIds : SearchPost(r)

SpecPar == InitPar /\ [][NextPar]_vars

\* The scheduler's test of the rows: the two monitors have any interval and
\* any age of last_checked, in seconds up to the wake-up, and the loop makes
\* one iteration.
DueIntervals == {1, 15}

DueElapsed == {0, 59, 60, 61, 600, 899, 900, 901, 960}

DueNows == {960, 990}

DueRows(t) ==
    {[patient_id |-> 1, action_type |-> "notify", interval_minutes |-> i,
      is_active |-> a, last_checked |-> l] :
        i \in DueIntervals, a \in BOOLEAN,
        l \in {Null} \cup {t - e : e \in DueElapsed}}

InitDue ==
    /\ now \in DueNows
    /\ monitors \in [MonitorIds -> DueRows(now)]
    /\ patients = PatientIds
    /\ runs = [r \in RunIds |-> NoRun]
    /\ queue = [t \in Tcs |-> <<>>]
    /\ executors = {}
    /\ botLock = 0
    /\ sessions = [t \in Tcs |-> 0]
    /\ objs = [s \in Sids |-> NoSession]
    /\ buttons = {}
    /\ stop_event = FALSE
    /\ loops = 0
    /\ foreign_calls = {}
    /\ input = <<>>
    /\ output = <<>>
    /\ clock = 0
    /\ idle_reads = {}
    /\ active_runs = [m \in MonitorIds |-> 0]
    /\ manager = BuiltManager
    /\ shutdown = NoShutdown
    /\ finished = NoBooking

DueTick == now \in DueNows /\ Tick

NextDue == DueTick

SpecDue == InitDue /\ [][NextDue]_vars

\* The scheduler as the program runs it: no loop until a monitor is set up
\* in the chat, a loop started with each monitor, and stop_scheduler.
InitLoop ==
    /\ InitCommon
    /\ monitors = [m \in MonitorIds |-> NoMonitor]

LoopCreate == loops < MaxLoops /\ \E m \in MonitorIds : finalize_monitor_creation(1, m, "notify")

LoopTick == now < MaxLoopTime * WakeSeconds /\ LoopIterate

NextLoop ==
    \/ LoopCreate
    \/ StopScheduler
    \/ LoopEnd
    \/ LoopTick
    \/ \E r \in RunIds : Preamble(r)
    \/ \E t \in Tcs : StartTask(t)
    \/ \E r \in RunIds : Begin(r)
    \/ \E r \in RunIds : EngineReturn(r)
    \/ \E r \in RunIds : ScanPost(r)

SpecLoop == InitLoop /\ [][NextLoop]_vars

\* The same, with the event loop running every monitor_loop task that is
\* ready: a task that waits in wait_for(_stop_event.wait(), 60) is ready as
\* soon as the event is set.
SpecLoopFair == InitLoop /\ [][NextLoop]_vars /\ WF_vars(LoopEnd)

\* The searches of one identity's operator with the session status requests
\* of the web client and the shutdown hook.
InitAff ==
    /\ InitCommon
    /\ monitors = [m \in MonitorIds |-> NoMonitor]

NextAff ==
    \/ RunSearch
    \/ \E t \in Tcs : StartTask(t)
    \/ \E r \in RunIds : Begin(r)
    \/ \E r \in RunIds : EngineReturn(r)
    \/ \E r \in RunIds : SearchPost(r)
    \/ \E p \in PatientIds : get_session_status(p)
    \/ on_shutdown
    \/ \E t \in Tcs : close_all_step(t)
    \/ close_all_return

SpecAff == InitAff /\ [][NextAff]_vars

\* The date filter alone: a slot date, a filter and the day of the call.
\* Slot dates: in and out of the ranges below, an impossible day, no
\* padding, a leap day, and text that is no date.
DateStrs ==
    {<<"2", "6", ".", "0", "2", ".", "2", "0", "2", "6">>,
     <<"0", "1", ".", "0", "3", ".", "2", "0", "2", "6">>,
     <<"2", "4", ".", "0", "2", ".", "2", "0", "2", "6">>,
     <<"2", "8", ".", "0", "2", ".", "2", "0", "2", "6">>,
     <<"2", "7", ".", "0", "2", ".", "2", "0", "2", "6">>,
     <<"3", "1", ".", "0", "2", ".", "2", "0", "2", "6">>,
     <<"5", ".", "3", ".", "2", "0", "2", "6">>,
     <<"2", "9", ".", "0", "2", ".", "2", "0", "2", "4">>,
     <<"a", "b", ".", "c", "d", ".", "2", "0", "2", "6">>,
     <<>>}

\* Filters: the token, ranges (spaced, reversed, half open, not dates), single
\* dates (padded, spaced, not padded) and the word for no filter.
DateRanges ==
    {<<"b", "u", "g", "u", "n">>,
     <<"2", "4", ".", "0", "2", ".", "2", "0", "2", "6", "-", "2", "8", ".", "0", "2", ".", "2", "0", "2", "6">>,
     <<"2", "4", ".", "0", "2", ".", "2", "0", "2", "6", " ", "-", " ", "2", "8", ".", "0", "2", ".", "2", "0", "2", "6">>,
     <<"2", "8", ".", "0", "2", ".", "2", "0", "2", "6", "-", "2", "4", ".", "0", "2", ".", "2", "0", "2", "6">>,
     <<"2", "6", ".", "0", "2", ".", "2", "0", "2", "6">>,
     <<" ", "2", "6", ".", "0", "2", ".", "2", "0", "2", "6", " ">>,
     <<"2", "6", ".", "2", ".", "2", "0", "2", "6">>,
     <<"2", "4", ".", "0", "2", ".", "2", "0", "2", "6", "-">>,
     <<"x", "x", "-", "y", "y">>,
     <<"2", "4", ".", "0", "2", "-", "2", "8", ".", "0", "2">>,
     <<"Y", "o", "k">>}

Todays == {<<2026, 2, 26>>, <<2026, 2, 28>>, <<2024, 12, 31>>}

\* The program at rest.
InitProgram ==
    /\ now = 0
    /\ patients = PatientIds
    /\ monitors = [m \in MonitorIds |-> NoMonitor]
    /\ runs = [r \in RunIds |-> NoRun]
    /\ queue = [t \in Tcs |-> <<>>]
    /\ executors = {}
    /\ botLock = 0
    /\ sessions = [t \in Tcs |-> 0]
    /\ objs = [s \in Sids |-> NoSession]
    /\ buttons = {}
    /\ stop_event = FALSE
    /\ loops = 0
    /\ foreign_calls = {}
    /\ clock = 0
    /\ idle_reads = {}
    /\ active_runs = [m \in MonitorIds |-> 0]
    /\ manager = BuiltManager
    /\ shutdown = NoShutdown
    /\ finished = NoBooking

program == <<now, patients, monitors, runs, queue, executors, botLock, sessions, objs,
             buttons, stop_event, loops, foreign_calls, clock, idle_reads, active_runs, finished>>

InitDate ==
    /\ InitProgram
    /\ input \in [date_str : DateStrs, date_range : DateRanges, today : Todays]
    /\ output = <<>>

\* A call of _date_matches with the arguments of input.
ApplyDateMatches ==
    /\ output = <<>>
    /\ output' = <<date_matches(input.date_str, input.date_range, input.today)>>
    /\ UNCHANGED <<shutdown, manager, active_runs, idle_reads, input, program>>

NextDate == ApplyDateMatches

SpecDate == InitDate /\ [][NextDate]_vars

\* The time filter alone: a sub-time and a filter.
\* Sub-times: in and out of the ranges below, on their ends, not padded, the
\* ends of the day, spaced, and text that is no time.
TimeStrs ==
    {<<"1", "4", ":", "3", "0">>,
     <<"0", "9", ":", "0", "0">>,
     <<"1", "3", ":", "0", "0">>,
     <<"1", "6", ":", "2", "0">>,
     <<"9", ":", "0", "5">>,
     <<"0", "0", ":", "0", "0">>,
     <<"2", "3", ":", "5", "9">>,
     <<" ", "1", "4", ":", "3", "0", " ">>,
     <<"2", "4", ":", "0", "0">>,
     <<"1", "4", "3", "0">>,
     <<>>}

\* Filters: after X, before Y, X to Y (spaced, reversed), no end at all, empty,
\* the word for no filter, a single time, and ends that are no times.
TimeRanges ==
    {<<"1", "3", ":", "0", "0", "-">>,
     <<"-", "1", "3", ":", "0", "0">>,
     <<"1", "3", ":", "0", "0", "-", "1", "6", ":", "2", "0">>,
     <<"0", "9", ":", "0", "0", " ", "-", " ", "1", "4", ":", "3", "0">>,
     <<"1", "6", ":", "2", "0", "-", "1", "3", ":", "0", "0">>,
     <<"-">>,
     <<>>,
     <<"Y", "o", "k">>,
     <<"1", "3", ":", "0", "0">>,
     <<"2", "5", ":", "0", "0", "-">>,
     <<"1", "3", ":", "0", "0", "-", "a", "b">>,
     <<"-", "9", ":", "5">>}

InitTime ==
    /\ InitProgram
    /\ input \in [time_str : TimeStrs, time_range : TimeRanges]
    /\ output = <<>>

\* A call of _time_matches with the arguments of input.
ApplyTimeMatches ==
    /\ output = <<>>
    /\ output' = <<time_matches(input.time_str, input.time_range)>>
    /\ UNCHANGED <<shutdown, manager, active_runs, idle_reads, input, program>>

NextTime == ApplyTimeMatches

SpecTime == InitTime /\ [][NextTime]_vars

\* The choice of the slot to book: the slots a scan reported, in any order,
\* and the monitor's filters.
Slot2616 ==
    [date |-> <<"2", "6", ".", "0", "2", ".", "2", "0", "2", "6">>,
     hour |-> <<"1", "6", ":", "0", "0">>,
     subtimes |-> <<<<"1", "6", ":", "1", "0">>,
                    <<"1", "6", ":", "2", "0">>>>]

Slot2617 ==
    [date |-> <<"2", "6", ".", "0", "2", ".", "2", "0", "2", "6">>,
     hour |-> <<"1", "7", ":", "0", "0">>,
     subtimes |-> <<<<"1", "7", ":", "1", "0">>>>]

Slot2709 ==
    [date |-> <<"2", "7", ".", "0", "2", ".", "2", "0", "2", "6">>,
     hour |-> <<"0", "9", ":", "0", "0">>,
     subtimes |-> <<<<"0", "9", ":", "1", "0">>,
                    <<"0", "9", ":", "2", "0">>>>]

Slot0113 ==
    [date |-> <<"0", "1", ".", "0", "3", ".", "2", "0", "2", "6">>,
     hour |-> <<"1", "3", ":", "0", "0">>,
     subtimes |-> <<<<"1", "3", ":", "3", "0">>>>]

Slots == {Slot2616, Slot2617, Slot2709, Slot0113}

Probed ==
    {<<>>} \cup {<<a>> : a \in Slots}
    \cup {x \in Slots \X Slots : x[1] # x[2]}

PickDateRanges == {<<>>, Yok, <<"2", "4", ".", "0", "2", ".", "2", "0", "2", "6", "-", "2", "8", ".", "0", "2", ".", "2", "0", "2", "6">>}

PickTimeRanges == {<<>>, Yok, <<"1", "3", ":", "0", "0", "-">>}

InitPick ==
    /\ InitProgram
    /\ input \in [probed : Probed, date_range : PickDateRanges,
                  time_range : PickTimeRanges, today : {<<2026, 2, 20>>}]
    /\ output = <<>>

\* _handle_monitor_result of an auto_book monitor up to the book_target.
ApplyBookTarget ==
    /\ output = <<>>
    /\ output' = <<book_target(filter_probed(input.probed, input.date_range,
                                             input.time_range, input.today))>>
    /\ UNCHANGED <<shutdown, manager, active_runs, idle_reads, input, program>>

NextPick == ApplyBookTarget

SpecPick == InitPick /\ [][NextPick]_vars

\* The dispatch of a scan result: any action type, the slots a scan
\* reported (one of them with a long date text as the site may print it),
\* the monitor's filters, and a short and a long patient id.
SlotLong ==
    [date |-> <<"2", "6", ".", "0", "2", ".", "2", "0", "2", "6", " ", "P", "e", "r", "U+015F",
                "e", "m", "b", "e", " ", "(", "I", "n", "t", "e", "r", "n", "e", "t",
                " ", "R", "a", "n", "d", "e", "v", "u", ")", " ", "1", "6", ":", "0", "0">>,
     hour |-> <<"1", "6", ":", "0", "0">>,
     subtimes |-> <<<<"1", "6", ":", "1", "0">>, <<"1", "6", ":", "2", "0">>>>]

DispatchProbed ==
    {<<>>} \cup {<<a>> : a \in {Slot2616, Slot0113, SlotLong}}
    \cup {<<Slot2616, Slot0113>>, <<SlotLong, Slot2617>>, <<Slot2709, SlotLong>>}

DispatchPatientIds == {7, 1234567890}

InitDispatch ==
    /\ input \in [action_type : ActionTypes, id : DispatchPatientIds,
                  probed : DispatchProbed, date_range : PickDateRanges,
                  time_range : PickTimeRanges, today : {<<2026, 2, 20>>}]
    /\ output = <<>>
    /\ monitors = (1 :> MonitorRow(1, input.action_type, 1)) @@ (2 :> NoMonitor)
    /\ now = 0
    /\ patients = PatientIds
    /\ runs = [r \in RunIds |-> NoRun]
    /\ queue = [t \in Tcs |-> <<>>]
    /\ executors = {}
    /\ botLock = 0
    /\ sessions = [t \in Tcs |-> 0]
    /\ objs = [s \in Sids |-> NoSession]
    /\ buttons = {}
    /\ stop_event = FALSE
    /\ loops = 0
    /\ foreign_calls = {}
    /\ clock = 0
    /\ idle_reads = {}
    /\ active_runs = [m \in MonitorIds |-> 0]
    /\ manager = BuiltManager
    /\ shutdown = NoShutdown
    /\ finished = NoBooking

\* _handle_monitor_result for monitor 1 of patient 1, whose row id is
\* input.id: the messages go to output, and a booking it triggers acts on
\* the store and the executor as _trigger_booking does.
ApplyDispatch ==
    /\ output = <<>>
    /\ LET res == handle_monitor_result(
                      input.action_type, input.id,
                      filter_probed(input.probed, input.date_range,
                                    input.time_range, input.today))
           tb == trigger_booking(monitors, runs, queue, executors, 1, "monitor")
       IN  /\ output' = <<res>>
           /\ IF res.booking # NoTarget
              THEN /\ monitors' = tb.monitors
                   /\ runs' = tb.runs
                   /\ queue' = tb.queue
                   /\ executors' = tb.executors
              ELSE UNCHANGED <<monitors, runs, queue, executors>>
    /\ UNCHANGED <<shutdown, manager, active_runs, idle_reads, clock, input, foreign_calls, loops,
                   stop_event, now, patients, botLock, sessions, objs, buttons,
                   finished>>

NextDispatch == ApplyDispatch

SpecDispatch == InitDispatch /\ [][NextDispatch]_vars

\* The session pool with its idle eviction under the searches of patient
\* 1's operator; patient 2 has searched before and its session is pooled.
InitEvict ==
    /\ now = 0
    /\ patients = PatientIds
    /\ monitors = [m \in MonitorIds |-> NoMonitor]
    /\ runs = [r \in RunIds |-> NoRun]
    /\ queue = [t \in Tcs |-> <<>>]
    /\ executors = {Tc(2)}
    /\ botLock = 0
    /\ sessions = [t \in Tcs |-> IF t = Tc(2) THEN 1 ELSE 0]
    /\ objs = [s \in Sids |->
                 IF s = 1
                 THEN [st |-> "open", tc |-> Tc(2), logged_in |-> TRUE,
                       search_url |-> "post_login", last_used |-> 0]
                 ELSE NoSession]
    /\ buttons = {}
    /\ stop_event = FALSE
    /\ loops = 0
    /\ foreign_calls = {}
    /\ clock = 0
    /\ input = <<>>
    /\ output = <<>>
    /\ idle_reads = {}
    /\ active_runs = [m \in MonitorIds |-> 0]
    /\ manager = BuiltManager
    /\ shutdown = NoShutdown
    /\ finished = NoBooking

EvictSweep == clock < MaxSweeps * cleanup_interval /\ cleanup_sweep

\* The operator of identity 1 searches, one search at a time.
EvictSearch ==
    /\ \A r \in RunIds : runs[r].kind # "search"
    /\ ManualSearch(1)

NextEvict ==
    \/ EvictSearch
    \/ \E t \in Tcs : StartTask(t)
    \/ \E r \in RunIds : Begin(r)
    \/ \E r \in RunIds : EngineReturn(r)
    \/ \E r \in RunIds : SearchPost(r)
    \/ EvictSweep
    \/ \E t \in Tcs : EvictTask(t)

SpecEvict == InitEvict /\ [][NextEvict]_vars

\* Idle eviction with fairness.  The eviction thread loops for ever, each
\* executor's worker takes the next task of its queue, and a task that runs
\* comes to its end; sweeps may raise, but not every sweep from some time
\* on.  Time past the horizon of MaxSweeps intervals is not measured: the
\* loop goes on sweeping at the horizon's clock.
Horizon == MaxSweeps * cleanup_interval

WakeTime == IF clock < Horizon THEN clock + cleanup_interval ELSE clock

FairSweep(raised) == cleanup_iteration(WakeTime, raised)

FairSearch ==
    /\ clock = 0
    /\ \A r \in RunIds : runs[r].kind # "search"
    /\ ManualSearch(1)

NextEvictFair ==
    \/ FairSearch
    \/ \E t \in Tcs : StartTask(t)
    \/ \E r \in RunIds : Begin(r)
    \/ \E r \in RunIds : EngineReturn(r)
    \/ \E r \in RunIds : SearchPost(r)
    \/ \E raised \in BOOLEAN : FairSweep(raised)
    \/ \E t \in Tcs : EvictTask(t)

SpecEvictFair ==
    /\ InitEvict
    /\ [][NextEvictFair]_vars
    /\ WF_vars(FairSweep(FALSE))
    /\ \A t \in Tcs : WF_vars(StartTask(t)) /\ WF_vars(EvictTask(t))
    /\ \A r \in RunIds :
          WF_vars(Begin(r)) /\ WF_vars(EngineReturn(r)) /\ WF_vars(SearchPost(r))

\* ---------------------------------------------------------------- claims
\* A booking flow of run r ends in this step, and it did not succeed.
BookingFails(r) ==
    /\ runs[r].kind = "book"
    /\ runs[r].pc \in {"returned", "raised"}
    /\ runs'[r].kind = "none"
    /\ ~(runs[r].pc = "returned" /\ runs[r].booked)

\* The runs of identity t that are inside an engine call.
InEngineOf(t) == {r \in InEngine(runs) : Tc(runs[r].pat) = t}

\* C1: for every identity at most one run is in the hands of the identity's
\* executor, hence at most one run of the identity is inside the engine, in
\* every reachable state.
C1_OneRunPerIdentityInEngine ==
    \A t \in Tcs :
        /\ Cardinality(OnExecutor(runs, t)) <= 1
        /\ Cardinality(InEngineOf(t)) <= 1

\* C1's case: a run of an identity is inside the engine while another run of
\* the same identity, of another kind, waits on the executor.
C1_Witness ==
    \E r1 \in RunIds, r2 \in RunIds :
        /\ runs[r1].pc \in {"reuse", "retry", "login"}
        /\ runs[r2].pc = "queued"
        /\ runs[r1].pat = runs[r2].pat
        /\ runs[r1].kind # runs[r2].kind

\* C2: for one patient at most one booking triggered from a monitor result
\* is pending or running at any time.
C2_NoSecondBooking ==
    \A p \in PatientIds :
        Cardinality({r \in RunIds : /\ runs[r].kind = "book"
                                    /\ runs[r].origin = "monitor"
                                    /\ runs[r].pat = p}) <= 1

\* C3: every session that was started and not closed is the entry of the
\* pool for its identity.
C3_NoOrphanSession ==
    \A s \in Sids : objs[s].st = "open" => sessions[objs[s].tc] = s

\* C4: every monitor has at most one run that was dispatched and has not
\* completed.
C4_OneRunPerMonitor ==
    \A m \in MonitorIds :
        Cardinality({r \in RunIds : runs[r].kind = "scan" /\ runs[r].mon = m}) <= 1

\* C5: at the step in which a booking's first engine call begins, no monitor
\* of the booking's patient is active.
C5_NoActiveMonitorWhenBookingBegins ==
    [][\A r \in RunIds :
          (/\ runs[r].kind = "book"
           /\ runs[r].pc = "waitlock"
           /\ runs'[r].pc \in {"reuse", "login"})
          => ActiveMonitorsOf(monitors', runs[r].pat) = {}]_vars

\* C6: the step that ends a booking flow without success leaves every
\* monitor that the flow deactivated active.
C6_FailedBookingReactivates ==
    [][\A r \in RunIds :
          BookingFails(r) => \A m \in runs[r].deact : monitors'[m].is_active]_vars

\* C6's case: a booking flow that had deactivated a monitor has ended
\* without success, and the monitors it deactivated are active.
C6_Witness ==
    /\ finished.pat # 0
    /\ ~finished.success
    /\ finished.deact # {}
    /\ \A m \in finished.deact : monitors[m].is_active

\* C7: the step that ends a booking flow without success sets active only
\* monitors that this flow deactivated.
C7_ReactivatesOnlyOwn ==
    [][\A r \in RunIds :
          BookingFails(r) =>
              \A m \in MonitorIds :
                  (~monitors[m].is_active /\ monitors'[m].is_active) => m \in runs[r].deact]_vars

\* C8: once a booking has succeeded, no step sets a monitor that was
\* deactivated for it active again.
C8_StayInactiveAfterSuccess ==
    [][finished.success => \A m \in finished.deact : ~monitors'[m].is_active]_vars

C10_RetryOnce ==
    /\ [](\A r \in RunIds :
            /\ runs[r].calls <= 2
            /\ runs[r].calls = 2 <=> runs[r].pc = "retry"
            /\ runs[r].pc = "retry" =>
                  /\ runs[r].retried
                  /\ ~runs[r].skip
                  /\ sessions[Tc(runs[r].pat)] = runs[r].bs
                  /\ objs[runs[r].bs].st = "open"
                  /\ ~objs[runs[r].bs].logged_in
                  /\ \A c \in CreateOutcomes(SM) :
                        LET res == RetryReturn(SM, runs[r], "fail", FALSE, c) IN
                        /\ res.f.pc = "returned"
                        /\ res.f.status = "ERROR"
                        /\ res.f.exit_code = 1)
    /\ [][\A r \in RunIds :
            /\ (runs[r].pc # "retry" /\ runs'[r].pc = "retry") =>
                  (runs[r].pc = "reuse" /\ runs[r].skip)
            /\ (runs[r].pc = "retry" /\ runs'[r] # runs[r]) =>
                  (runs'[r].pc = "returned" /\ runs'[r].status \in EnvelopeStatuses)]_vars

\* C10's case: the reuse attempt of a run has failed and the run is in its
\* second engine call, on the session created for it.
C10_Witness ==
    \E r \in RunIds :
        /\ runs[r].pc = "retry"
        /\ runs[r].calls = 2
        /\ sessions[Tc(runs[r].pat)] = runs[r].bs

\* C11: a search run that starts with no pooled session for its identity and
\* whose first create_session call fails returns an envelope that is neither
\* CANCELLED nor ERROR, and leaves one logged-in session in the pool.
C11_RecoversFromCreateFailure ==
    \A r \in RunIds :
        (/\ runs[r].kind = "search"
         /\ runs[r].pc = "waitlock"
         /\ botLock = 0
         /\ sessions[Tc(runs[r].pat)] = 0)
        => \A c \in CreateOutcomes(SM) \ {"ok"} :
              LET res == RunStart(SM, runs[r], TRUE, TRUE, c) IN
              /\ res.f.pc \in {"login", "returned"}
              /\ res.f.pc = "returned" => res.f.status \notin {"CANCELLED", "ERROR"}

\* C12: runs of different identities are fully parallel: a run that waits to
\* start its engine call is never held up by a run of another identity.
C12_OtherIdentityNeverBlocks ==
    \A r \in RunIds :
        runs[r].pc = "waitlock"
        => \/ botLock = 0
           \/ Tc(runs[botLock].pat) = Tc(runs[r].pat)

\* C13: in an iteration of the scheduler a monitor is dispatched exactly if
\* it is active and its last_checked is null or lies at least
\* interval_minutes minutes (fractions counted) back.  With an interval of 15
\* a monitor checked 10 minutes ago is not dispatched and one checked 16
\* minutes ago is.
Dispatched(m) ==
    \E r \in RunIds :
        /\ runs[r].kind = "none"
        /\ runs'[r].kind = "scan" /\ runs'[r].pc = "new" /\ runs'[r].mon = m

C13_DispatchedIffDue ==
    [][now' # now =>
        \A m \in MonitorIds :
            LET last == monitors[m].last_checked
                every == monitors[m].interval_minutes
                active == monitors[m].is_active
            IN  /\ Dispatched(m) <=>
                     /\ active
                     /\ \/ last = Null
                        \/ now - last >= every * 60
                /\ active /\ last = Null => Dispatched(m)
                /\ active /\ every = 15 /\ now - last = 10 * 60 => ~Dispatched(m)
                /\ active /\ every = 15 /\ now - last = 16 * 60 => Dispatched(m)]_vars

\* Monitor 1, checked 16 minutes before the iteration, was dispatched, and
\* monitor 2, checked 10 minutes before it, was not.
C13_Witness ==
    /\ \E r \in RunIds : runs[r].pc = "new" /\ runs[r].mon = 1
    /\ ~ \E r \in RunIds : runs[r].pc = "new" /\ runs[r].mon = 2
    /\ \A m \in MonitorIds : monitors[m].is_active /\ monitors[m].interval_minutes = 15
    /\ now - WakeSeconds - monitors[1].last_checked = 16 * 60
    /\ now - WakeSeconds - monitors[2].last_checked = 10 * 60

\* C14: close_session is idempotent: a call for an identity without a pool
\* entry, and so a second call after a first one, leaves the pool as it is,
\* makes no page or session close call and does not raise; that is so too
\* when a close call of the first one raised.
C14_CloseIdempotent ==
    \A tc \in Tcs : \A x \in CloseOutcomes, y \in CloseOutcomes :
        LET once == close_session(SM, tc) IN
        /\ ~close_raises(SM, tc, x)
        /\ close_session(once, tc) = once
        /\ close_calls(once, tc, y) = <<>>
        /\ ~close_raises(once, tc, y)
        /\ sessions[tc] = 0 => once = SM /\ close_calls(SM, tc, x) = <<>>

\* A pooled session is in its engine call on the reuse path: if the call
\* fails, the entry is closed by the coordinator and closed again first thing
\* by create_session.
C14_Witness ==
    \E r \in RunIds :
        /\ runs[r].pc = "reuse"
        /\ sessions[Tc(runs[r].pat)] # 0
        /\ close_session(SM, Tc(runs[r].pat)) # SM
        /\ \E x \in CloseOutcomes : Len(close_calls(SM, Tc(runs[r].pat), x)) = 2

\* C15: starting and stopping the scheduler are idempotent: whatever the
\* sequence of start_scheduler and stop_scheduler calls, at most one
\* monitor_loop task is running.
C15_AtMostOneLoop == loops <= 1

\* C16: the session of an identity is touched only by tasks on that
\* identity's executor: no page or session call is made by a request thread,
\* the shutdown hook, the eviction thread or the scheduler loop.
C16_OnlyExecutorTouchesSession == foreign_calls = {}

\* C18: the date filter accepts a slot date exactly when the filter is the
\* token 'bugun' and the date is today's or tomorrow's date string, or the
\* filter is a single date equal to the slot date, or the filter is a range
\* start-end with start <= date <= end; a filter or a slot date that cannot be
\* parsed lets the slot pass.  '24.02.2026-28.02.2026' accepts 26.02.2026
\* and rejects 01.03.2026.
DayNumber(d) == d[1] * 10000 + d[2] * 100 + d[3]

RangeAt(f, i) ==
    /\ f[i] = "-"
    /\ strptime_date(strip(SubSeq(f, 1, i - 1))) # ValueError
    /\ strptime_date(strip(SubSeq(f, i + 1, Len(f)))) # ValueError

C18_DateFilter ==
    output # <<>> /\ "date_range" \in DOMAIN input =>
        LET f == input.date_range
            accepted == output[1]
            d == strptime_date(input.date_str)
            single == strptime_date(strip(f))
            ranged == \E i \in 1..Len(f) : RangeAt(f, i)
        IN  /\ f = bugun =>
                (accepted <=> \/ input.date_str = strftime_date(input.today)
                              \/ input.date_str = strftime_date(next_day(input.today)))
            /\ f # bugun /\ d # ValueError /\ single # ValueError =>
                (accepted <=> d = single)
            /\ f # bugun /\ d # ValueError =>
                \A i \in 1..Len(f) : RangeAt(f, i) =>
                    LET start == strptime_date(strip(SubSeq(f, 1, i - 1)))
                        end == strptime_date(strip(SubSeq(f, i + 1, Len(f))))
                    IN  accepted <=> /\ DayNumber(start) <= DayNumber(d)
                                     /\ DayNumber(d) <= DayNumber(end)
            /\ f # bugun /\ (d = ValueError \/ (single = ValueError /\ ~ranged)) => accepted
            /\ f = <<"2", "4", ".", "0", "2", ".", "2", "0", "2", "6", "-", "2", "8", ".", "0", "2", ".", "2", "0", "2", "6">> =>
                /\ input.date_str = <<"2", "6", ".", "0", "2", ".", "2", "0", "2", "6">> => accepted
                /\ input.date_str = <<"0", "1", ".", "0", "3", ".", "2", "0", "2", "6">> => ~accepted

\* The filter is a range, and the call was made with the first day of the
\* range.
C18_Witness ==
    /\ output = <<TRUE>>
    /\ "date_range" \in DOMAIN input
    /\ input.date_range = <<"2", "4", ".", "0", "2", ".", "2", "0", "2", "6", "-", "2", "8", ".", "0", "2", ".", "2", "0", "2", "6">>
    /\ input.date_str = <<"2", "4", ".", "0", "2", ".", "2", "0", "2", "6">>

\* C19: the time filter accepts a sub-time t exactly when the filter is 'X-'
\* and t >= X, or '-Y' and t <= Y, or 'X-Y' and X <= t <= Y, or the filter is
\* empty or the word for no filter; a filter or a sub-time that cannot be
\* parsed lets the sub-time pass.  '13:00-' accepts 14:30 and rejects 09:00.
MinuteOfDay(t) == t[1] * 60 + t[2]

\* The filter f has its dash at i, with X before it and Y after it; an end
\* may be empty.
TimeRangeAt(f, i, X, Y) ==
    /\ f[i] = "-"
    /\ ~Contains(SubSeq(f, 1, i - 1), "-") /\ ~Contains(SubSeq(f, i + 1, Len(f)), "-")
    /\ X = strip(SubSeq(f, 1, i - 1))
    /\ Y = strip(SubSeq(f, i + 1, Len(f)))

C19_TimeFilter ==
    output # <<>> /\ "time_range" \in DOMAIN input =>
        LET f == input.time_range
            accepted == output[1]
            t == strptime_time(strip(input.time_str))
            Ends == {strip(SubSeq(f, 1, i - 1)) : i \in 1..Len(f)}
                    \cup {strip(SubSeq(f, i + 1, Len(f))) : i \in 1..Len(f)}
            wellformed ==
                \E i \in 1..Len(f), X \in Ends, Y \in Ends :
                    /\ TimeRangeAt(f, i, X, Y)
                    /\ X # <<>> \/ Y # <<>>
                    /\ X # <<>> => strptime_time(X) # ValueError
                    /\ Y # <<>> => strptime_time(Y) # ValueError
        IN  /\ f = <<>> \/ f = Yok => accepted
            /\ t = ValueError \/ ~wellformed => accepted
            /\ t # ValueError /\ f # Yok =>
                \A i \in 1..Len(f), X \in Ends, Y \in Ends :
                    TimeRangeAt(f, i, X, Y) =>
                        LET x == strptime_time(X)
                            y == strptime_time(Y)
                        IN  /\ X # <<>> /\ Y = <<>> /\ x # ValueError =>
                                (accepted <=> MinuteOfDay(t) >= MinuteOfDay(x))
                            /\ X = <<>> /\ Y # <<>> /\ y # ValueError =>
                                (accepted <=> MinuteOfDay(t) <= MinuteOfDay(y))
                            /\ X # <<>> /\ Y # <<>> /\ x # ValueError /\ y # ValueError =>
                                (accepted <=> /\ MinuteOfDay(x) <= MinuteOfDay(t)
                                              /\ MinuteOfDay(t) <= MinuteOfDay(y))
            /\ f = <<"1", "3", ":", "0", "0", "-">> =>
                /\ input.time_str = <<"1", "4", ":", "3", "0">> => accepted
                /\ input.time_str = <<"0", "9", ":", "0", "0">> => ~accepted

\* The filter is 'X-Y', and the call was made with a sub-time after Y.
C19_Witness ==
    /\ output = <<FALSE>>
    /\ "time_range" \in DOMAIN input
    /\ input.time_range = <<"1", "3", ":", "0", "0", "-", "1", "6", ":", "2", "0">>
    /\ input.time_str = <<"2", "3", ":", "5", "9">>

\* C17: for auto_book with filtered slots the booking target is the slot with
\* the furthest date among the filtered slots and the latest of its
\* sub-times, in whatever order the scan reported the slots.
C17_TargetIsFurthestLatest ==
    output # <<>> /\ "probed" \in DOMAIN input =>
        LET filtered == filter_probed(input.probed, input.date_range,
                                      input.time_range, input.today)
            target == output[1]
        IN  filtered # <<>> =>
              /\ \A i \in 1..Len(filtered) :
                    DayNumber(strptime_date(filtered[i].date))
                        <= DayNumber(strptime_date(target.date))
              /\ \A i \in 1..Len(filtered) :
                    filtered[i].date = target.date /\ filtered[i].hour = target.hour =>
                        \A k \in 1..Len(filtered[i].subtimes) :
                            MinuteOfDay(strptime_time(filtered[i].subtimes[k]))
                                <= MinuteOfDay(strptime_time(target.subtime))

\* C20: when a run returns the ERROR envelope the pool holds no session for
\* its identity, and a run that starts with no session for its identity in
\* the pool does not reuse one: it creates a session and logs in, or returns.
C20_ErrorLeavesNoSession ==
    [][\A r \in RunIds :
          /\ (/\ runs[r].pc # "returned"
              /\ runs'[r].pc = "returned"
              /\ runs'[r].status = "ERROR")
             => sessions'[Tc(runs'[r].pat)] = 0
          /\ (/\ runs[r].pc = "waitlock"
              /\ runs'[r].pc # "waitlock"
              /\ sessions[Tc(runs[r].pat)] = 0)
             => \/ runs'[r].pc = "returned"
                \/ runs'[r].pc = "login" /\ ~runs'[r].skip /\ ~runs'[r].reused]_vars

\* A run has returned the ERROR envelope, and the next run of the identity
\* is logging in afresh.
C20_Witness ==
    \E r \in RunIds, q \in RunIds :
        /\ runs[r].pc = "returned" /\ runs[r].status = "ERROR"
        /\ runs[q].pc = "login" /\ runs[q].pat = runs[r].pat

\* C21: get_session returns the pooled session, with last_used refreshed, if
\* its page is alive; it closes and removes a session whose page is dead and
\* returns None; with no session pooled it returns None and changes nothing.
\* No other session is closed, removed or touched.
C21_GetSession ==
    \A tc \in Tcs : \A alive \in BOOLEAN :
        LET g == get_session(SM, tc, alive)
            bs == sessions[tc]
        IN  /\ bs = 0 => g.bs = 0 /\ g.S = SM
            /\ bs # 0 /\ alive =>
                /\ g.bs = bs
                /\ g.S.sessions = sessions
                /\ g.S.objs[bs] = [objs[bs] EXCEPT !.last_used = clock]
            /\ bs # 0 /\ ~alive =>
                /\ g.bs = 0
                /\ g.S.sessions[tc] = 0
                /\ g.S.objs[bs].st = "closed"
            /\ \A t \in Tcs \ {tc} : g.S.sessions[t] = sessions[t]
            /\ \A x \in Sids \ {bs} : g.S.objs[x] = objs[x]

\* A run is about to look up its identity's session, which was last used
\* some time ago, while another identity's session is pooled too.
C21_Witness ==
    \E r \in RunIds :
        /\ runs[r].pc = "waitlock"
        /\ sessions[Tc(runs[r].pat)] # 0
        /\ objs[sessions[Tc(runs[r].pat)]].last_used < clock
        /\ \E t \in Tcs \ {Tc(runs[r].pat)} : sessions[t] # 0

\* C22: get_status is a read-only snapshot: the session map, the executor
\* map and every session's logged_in, search_url and last_used are as before
\* the call; with no session pooled it reports active false, logged_in false
\* and idle_seconds 0; it reports logged_in true only for a session that is
\* logged in and alive.
C22_GetStatusReadOnly ==
    /\ [](\A tc \in Tcs : \A alive \in BOOLEAN :
            LET g == get_status(SM, tc, alive) IN
            /\ g.S.sessions = sessions
            /\ \A x \in Sids :
                  /\ g.S.objs[x].logged_in = objs[x].logged_in
                  /\ g.S.objs[x].search_url = objs[x].search_url
                  /\ g.S.objs[x].last_used = objs[x].last_used
            /\ sessions[tc] = 0 =>
                  g.status = [active |-> FALSE, logged_in |-> FALSE, idle_seconds |-> 0]
            /\ g.status.logged_in <=>
                  sessions[tc] # 0 /\ objs[sessions[tc]].logged_in /\ alive)
    /\ [][(\E t \in Tcs : [thread |-> "request", tc |-> t] \in foreign_calls' \ foreign_calls)
            => UNCHANGED <<sessions, objs, executors>>]_vars

\* The status of a pooled, logged-in session has been requested.
C22_Witness ==
    \E t \in Tcs :
        /\ [thread |-> "request", tc |-> t] \in foreign_calls
        /\ sessions[t] # 0
        /\ objs[sessions[t]].logged_in

\* C23: idle eviction makes its idle-timeout check and the close on the
\* identity's executor: the eviction thread never reads a session's idle
\* time to decide and never closes a session.
C23_EvictionThreadReadsNothing == idle_reads = {}

\* An eviction task of identity t runs in this step.
EvictTaskStep(t) ==
    /\ queue[t] # <<>>
    /\ runs[Head(queue[t])].kind = "evict"
    /\ queue'[t] = Tail(queue[t])

\* C24: idle eviction closes only a session that has been idle for longer
\* than the idle timeout at the moment of the close: a session touched, or
\* freshly created, between the sweep that marked its identity and the run of
\* the queued close task is left in the pool by that task.
C24_ClosesOnlyIdleSession ==
    [][\A t \in Tcs :
          (EvictTaskStep(t) /\ sessions[t] # 0 /\ sessions'[t] = 0)
              => idle_seconds(SM, sessions[t]) > idle_timeout]_vars

\* The session of identity t has been idle for longer than the idle timeout.
IdleExpired(t) == sessions[t] # 0 /\ idle_seconds(SM, sessions[t]) > idle_timeout

\* C25: a pooled session that stays unused for longer than the idle timeout
\* is eventually closed and removed from the pool, given that the tasks
\* queued on its identity's executor terminate; a sweep that raises does not
\* end the eviction loop.
C25_IdleSessionEventuallyClosed ==
    \A t \in Tcs :
        IdleExpired(t) ~> (sessions[t] = 0 \/ ~IdleExpired(t))

\* An expired session is pooled and no close is queued for it: the sweep that
\* found it raised, or no sweep has seen it yet.
C25_Witness ==
    \E t \in Tcs :
        /\ IdleExpired(t)
        /\ clock = Horizon
        /\ \A r \in RunIds : runs[r].kind # "evict"

\* The sessions that are started and not closed.
OpenSessions(S) == {s \in Sids : S.objs[s].st = "open"}

\* C26: create_session closes the identity's pooled session first, and then
\* either returns a started session with a page that is the identity's pool
\* entry, or raises with no entry registered and no started session left
\* open: a failure between start and registration leaks nothing.
C26_CreateAllOrNothing ==
    \A tc \in Tcs : \A c \in CreateOutcomes(SM) :
        LET g == create_session(SM, tc, c) IN
        /\ ~g.raised =>
              /\ g.bs # 0
              /\ g.S.sessions[tc] = g.bs
              /\ OpenSessions(g.S) = (OpenSessions(SM) \ {sessions[tc]}) \cup {g.bs}
        /\ g.raised =>
              /\ g.S.sessions[tc] = 0
              /\ OpenSessions(g.S) = OpenSessions(SM) \ {sessions[tc]}

\* C27: when the engine signals cancellation during a reuse attempt, the run
\* returns CANCELLED at once: the pool and its sessions are as before (no
\* close, no new session) and the engine is not called again.
C27_CancelDuringReuse ==
    \A r \in RunIds :
        runs[r].pc = "reuse" =>
            \A booked \in BOOLEAN : \A c \in CreateOutcomes(SM) :
                LET g == ReuseReturn(SM, runs[r], "cancel", booked, c) IN
                /\ g.S = SM
                /\ g.f.pc = "returned"
                /\ g.f.status = "CANCELLED"
                /\ g.f.exit_code = 1
                /\ ~g.f.reused

\* A run has returned CANCELLED and its identity's logged-in session is still
\* pooled: the cancellation came during a reuse attempt.
C27_Witness ==
    \E r \in RunIds :
        /\ runs[r].pc = "returned"
        /\ runs[r].status = "CANCELLED"
        /\ sessions[Tc(runs[r].pat)] # 0
        /\ objs[sessions[Tc(runs[r].pat)]].logged_in

\* A run of identity t is between the start and the end of run_bot_with_session's
\* work on the session.
Executing(t) ==
    \E r \in RunIds : Tc(runs[r].pat) = t /\ runs[r].pc \in {"reuse", "retry", "login"}

\* C28: no half-logged-in session is left cached: while no run of an identity
\* is executing, the identity's pooled session, if any, has logged_in set,
\* whatever the outcomes of the earlier runs were.
C28_NoHalfLoggedInSession ==
    \A t \in Tcs :
        (~Executing(t) /\ sessions[t] # 0) => objs[sessions[t]].logged_in

\* C29: a status callback that raises does not change the outcome of a run:
\* wherever the coordinator or its stdout tee calls the callback, the notice
\* before the retry included, the exception is swallowed, and the run goes
\* on as it does with a callback that does not raise.
C29_CallbackNeverChangesOutcome ==
    \A r \in RunIds :
        runs[r].pc \in {"reuse", "retry", "login"} =>
            \A o \in EngineOutcomes(runs[r]) : \A c \in CreateOutcomes(SM) :
            \A booked \in BookedOutcomes(runs[r], o) :
                LET loud == EngineEnd(SM, [runs[r] EXCEPT !.cb_raises = TRUE], o, booked, c)
                    quiet == EngineEnd(SM, [runs[r] EXCEPT !.cb_raises = FALSE], o, booked, c)
                IN  /\ loud.S = quiet.S
                    /\ [loud.f EXCEPT !.cb_raises = FALSE] = quiet.f

\* C30: a dispatched monitor run validates again before any automation
\* call.  A monitor that is no longer active: the run ends with no engine
\* call, last_checked and is_active as they were.  A monitor whose patient
\* row is gone: the monitor is set inactive and the run ends with no engine
\* call.  Else last_checked is written, and the scan is submitted.
C30_RevalidatesBeforeScan ==
    [][\A r \in RunIds :
          (runs[r].pc = "new" /\ runs'[r] # runs[r]) =>
              LET m == runs[r].mon
                  p == runs[r].pat
              IN  IF ~monitors[m].is_active
                  THEN /\ runs'[r] = NoRun
                       /\ UNCHANGED <<monitors, queue>>
                  ELSE IF p \notin patients
                  THEN /\ runs'[r] = NoRun
                       /\ ~monitors'[m].is_active
                       /\ UNCHANGED queue
                  ELSE /\ monitors'[m].last_checked = now
                       /\ monitors'[m].is_active
                       /\ runs'[r].pc = "queued"
                       /\ queue'[Tc(p)] = Append(queue[Tc(p)], r)]_vars

\* A run has set its monitor inactive because the patient row was gone: the
\* monitor is inactive and was never checked, and no booking flow has ever
\* deactivated a monitor.
C30_Witness ==
    \E m \in MonitorIds :
        /\ monitors[m].patient_id \notin patients
        /\ ~monitors[m].is_active
        /\ monitors[m].last_checked = Null
        /\ finished = NoBooking
        /\ \A r \in RunIds : runs[r].kind # "book"

\* C31: a slow or stuck scan of one monitor does not delay the scheduler:
\* the loop goes on iterating and dispatching the other due monitors, and a
\* scan dispatched for another identity is executed (it gets past the wait
\* for its worker and for the lock) while the stuck scan is still running.
C31_StuckScanDelaysNobody ==
    \A r \in RunIds :
        (runs[r].kind = "scan" /\ runs[r].pc = "queued" /\ Tc(runs[r].pat) = Tc(2))
            ~> runs[r].pc \notin {"queued", "waitlock"}

\* A scan is created for a monitor in this step.
DispatchStep == \E r \in RunIds : runs[r].pc # "new" /\ runs'[r].pc = "new"

\* C32: after stop_scheduler, unless the scheduler is started again, every
\* wake loop ends; it leaves its wait at once (no period passes while the
\* event is set), dispatches no monitor once the event is set, and neither
\* the stop nor the end of the loop touches a run that was dispatched.
C32_StopEndsLoop ==
    /\ stop_event ~> (loops = 0 \/ ~stop_event)
    /\ [][stop_event => (now' = now /\ ~DispatchStep)]_vars
    /\ [][(stop_event' # stop_event \/ loops' < loops)
            => UNCHANGED <<runs, queue, executors, botLock, sessions, objs>>]_vars

\* The scheduler was stopped and its loops have ended while a scan that was
\* dispatched before is still inside its engine call.
C32_Witness ==
    /\ stop_event
    /\ loops = 0
    /\ \E r \in RunIds : runs[r].kind = "scan" /\ runs[r].pc \in {"reuse", "retry", "login"}

\* C33: the registry entry of a monitor is removed when its run completes,
\* whatever the outcome: the step that completes a scan leaves no entry for
\* its monitor, and a monitor without a submitted scan has no entry.
Submitted(r, m) == runs[r].kind = "scan" /\ runs[r].mon = m /\ runs[r].pc # "new"

C34_CancelReachesEveryRun ==
    \A m \in MonitorIds :
        {r \in RunIds : Submitted(r, m)} \subseteq cancel_monitor(active_runs, m)

C40_InitialisedOnce ==
    /\ manager.maps <= 1
    /\ manager.threads <= 1
    /\ \A c \in Callers : manager.pc[c] # "failed"

\* C36: get_executor returns the same single-worker executor for an
\* identity on every call, also when the first calls come from several
\* threads at once: no second executor is ever constructed for the identity
\* and all callers hold the same one.
C36_OneExecutorPerIdentity ==
    /\ manager.made <= 1
    /\ \A c \in Callers, d \in Callers :
          (manager.got[c] # 0 /\ manager.got[d] # 0) => manager.got[c] = manager.got[d]

\* C37: for action notify the dispatch sends exactly one message, built from
\* the filtered slots when there is one and from the raw alternatives
\* otherwise, and changes no state: it triggers no booking and the store and
\* the pool stay as they are.
Filtered == filter_probed(input.probed, input.date_range, input.time_range, input.today)

C37_NotifySendsOneMessage ==
    [][(output = <<>> /\ output' # <<>> /\ input.action_type = "notify") =>
        /\ Len(output'[1].messages) = 1
        /\ output'[1].messages[1].buttons = <<>>
        /\ output'[1].messages[1].kind = (IF Filtered # <<>> THEN "slots" ELSE "alternatives")
        /\ output'[1].booking = NoTarget
        /\ UNCHANGED <<monitors, runs, queue, executors, sessions, objs, buttons>>]_vars

C37_Witness ==
    /\ input.action_type = "notify"
    /\ input.probed # <<>>
    /\ Filtered = <<>>
    /\ output # <<>>
    /\ output[1].messages = <<Text("alternatives")>>

\* C38: for action ask_telegram the dispatch sends one message that has
\* exactly one button for every filtered sub-slot whose payload (identity,
\* date, hour, sub-time) fits 64 bytes; if there is no such button, it sends
\* one plain message; it never triggers a booking.
SubSlots == {<<i, j>> \in (1..2) \X (1..2) : i <= Len(Filtered) /\ j <= Len(Filtered[i].subtimes)}

Payload(x) == cb_data(input.id, Filtered[x[1]], Filtered[x[1]].subtimes[x[2]])

Fitting == {x \in SubSlots : encoded_len(Payload(x)) <= CallbackDataMax}

C38_OneButtonPerFittingSubSlot ==
    (output # <<>> /\ input.action_type = "ask_telegram") =>
        LET sent == output[1].messages IN
        /\ Len(sent) = 1
        /\ output[1].booking = NoTarget
        /\ \A m \in MonitorIds : monitors[m].is_active = (m = 1) /\ monitors[m].last_checked = Null
        /\ \A r \in RunIds : runs[r] = NoRun
        /\ Len(sent[1].buttons) = Cardinality(Fitting)
        /\ \A x \in Fitting : \E k \in 1..Len(sent[1].buttons) : sent[1].buttons[k] = Payload(x)
        /\ \A k \in 1..Len(sent[1].buttons) : encoded_len(sent[1].buttons[k]) <= CallbackDataMax
        /\ Fitting = {} <=> sent[1].kind # "choose"

C38_Witness ==
    /\ input.action_type = "ask_telegram"
    /\ output # <<>>
    /\ Fitting # {}
    /\ Fitting # SubSlots
    /\ Len(output[1].messages[1].buttons) = Cardinality(Fitting)

\* C39: close_all closes and removes every tracked session, and when it
\* returns at shutdown no session remains in the pool, also when a run was
\* executing during the call.
C39_ShutdownEmptiesPool ==
    [][(shutdown.pc = "closing" /\ shutdown'.pc = "returned")
          => \A t \in Tcs : sessions'[t] = 0]_vars

====
